---- MODULE Spec2Model ----
(***************************************************************************)
(* EnderSwap: hashed-timelock locks on an EVM ledger (evm/src/HTLC.sol)    *)
(* and on Sui (module htlc::htlc), and the relayer's SwapOrchestrator that *)
(* sequences one lock on each ledger into a swap.                          *)
(*                                                                         *)
(* A contract call is a pure operator from the ledger's state and the      *)
(* call's arguments to an outcome [err, st]: err = "ok" and the new state, *)
(* or the error of the first failing check and the state unchanged (a      *)
(* reverted transaction leaves no trace on the ledger).  The actions apply *)
(* these operators; the properties evaluate them on every reachable state. *)
(***************************************************************************)
EXTENDS Integers, Sequences, FiniteSets, TLC

VARIABLES
    locks,        \* HTLC.sol: mapping(bytes32 => Lock) public locks
    ethBalance,   \* ether held by every account and by the HTLC contract
    evmEvents,    \* per lockId, the events the contract emitted for it
    evmPaid,      \* per lockId, the ether transfers the contract made for it
    evmNow,       \* block.timestamp, seconds
    objects,      \* Sui: the live shared LockObjects, by object id
    suiCreated,   \* Sui: every LockObject ever created, as created
    suiBalance,   \* SUI held by every address
    suiEvents,    \* per lock object id, the events the module emitted for it
    suiPaid,      \* per lock object id, the coin transfers made for it
    suiNow,       \* clock::timestamp_ms, milliseconds
    orch,         \* the SwapOrchestrator run: position, secret, lock ids
    confirming    \* whether the EVM node still confirms the relayer's transactions

evmVars == <<locks, ethBalance, evmEvents, evmPaid>>
suiVars == <<objects, suiCreated, suiBalance, suiEvents, suiPaid>>
vars == <<locks, ethBalance, evmEvents, evmPaid, evmNow,
          objects, suiCreated, suiBalance, suiEvents, suiPaid, suiNow, orch,
          confirming>>

(***************************************************************************)
(* Program constants.                                                      *)
(***************************************************************************)
MAKER == 48 * 60 * 60          \* TIMELOCK_DURATIONS.MAKER, seconds
TAKER == 24 * 60 * 60          \* TIMELOCK_DURATIONS.TAKER, seconds
MsPerSecond == 1000            \* SuiService.createLock: duration * 1000
SecretBytes == 32              \* generateSecret: crypto.randomBytes(32)
ShortTimelock == 30            \* demonstrateTimelockExpiry, seconds
ExpiryBuffer == 5              \* demonstrateTimelockExpiry, seconds

(***************************************************************************)
(* Bounds of the model.                                                    *)
(***************************************************************************)
MaxTicks == 2                  \* the clocks advance at most this many steps
MaxLocks == 1                  \* locks the free callers create in one behaviour
InitialBalance == 4            \* what every account holds at the start

TickSeconds == TAKER           \* one step of the clocks: 24 hours

(***************************************************************************)
(* Byte strings, secrets and digests.  A byte string is its length and its *)
(* content; a digest is the algorithm and the preimage, so two digests are *)
(* equal exactly when algorithm and preimage are (no collisions).          *)
(***************************************************************************)
Bytes(n, c) == [len |-> n, v |-> c]
S1 == Bytes(SecretBytes, 1)
S2 == Bytes(SecretBytes, 2)
S3 == Bytes(SecretBytes - 1, 3)       \* a secret one byte short
S4 == Bytes(SecretBytes, 4)
Bytes32 == {S1, S2}                   \* what fits an EVM bytes32 secret
Secrets == {S1, S2, S3}               \* what fits a Move vector<u8>

sha256(b) == [alg |-> "sha256", pre |-> b]
keccak256(b) == [alg |-> "keccak256", pre |-> b]
ZeroHash == [alg |-> "zero", pre |-> Bytes(SecretBytes, 0)]

(***************************************************************************)
(* EVM ledger: HTLC.sol                                                    *)
(***************************************************************************)
ZeroAddress == "0x0"
EvmWallet == "0xW"             \* EVMService.walletAddress
EvmOther == "0xO"              \* another externally owned account
EvmRejecting == "0xR"          \* a contract account whose receive reverts
EvmReentering == "0xE"         \* a contract account whose receive calls HTLC
HTLC == "HTLC"                 \* the contract's own account
EvmAddrs == {EvmWallet, EvmOther, EvmRejecting}
EvmAccounts == EvmAddrs \cup {EvmReentering, HTLC}
LockIds == {sha256(S1), sha256(S2)}   \* bytes32 lock ids in use
DemoLockIds == LockIds \cup {sha256(S4)}   \* and the third of runFullDemo

EmptyLock ==
    [depositor |-> ZeroAddress, recipient |-> ZeroAddress, amount |-> 0,
     secretHash |-> ZeroHash, timelock |-> 0,
     claimed |-> FALSE, refunded |-> FALSE]

EvmState == [locks |-> locks, bal |-> ethBalance,
             events |-> evmEvents, paid |-> evmPaid]

Revert(st, msg) == [err |-> msg, st |-> st]

\* (bool sent, ) = to.call{value: amount}(""): the plain ether transfer
Sent(st, to, amount) == to \notin {EvmRejecting} /\ st.bal[HTLC] >= amount

\* Pay with one unit kept back by the contract
Pay_Short(st, id, to, amount) ==
    [st EXCEPT !.bal = [@ EXCEPT ![HTLC] = @ - (amount - 1), ![to] = @ + (amount - 1)],
               !.paid = [@ EXCEPT ![id] = Append(@, [to |-> to, amount |-> amount - 1])]]

Pay(st, id, to, amount) ==
    [st EXCEPT !.bal = [@ EXCEPT ![HTLC] = @ - amount, ![to] = @ + amount],
               !.paid = [@ EXCEPT ![id] = Append(@, [to |-> to, amount |-> amount])]]

\* createLock storing the duration itself as the deadline
createLock_DurationAsDeadline(st, now, sender, value, lockId, targetAddress, hashedSecret, durationSeconds) ==
    IF st.bal[sender] < value THEN Revert(st, "insufficient funds")
    ELSE IF ~(value > 0) THEN Revert(st, "Amount must be greater than 0")
    ELSE IF ~(st.locks[lockId].depositor = ZeroAddress)
        THEN Revert(st, "LockId already exists")
    ELSE [err |-> "ok",
          st |-> [st EXCEPT
            !.bal = [@ EXCEPT ![sender] = @ - value, ![HTLC] = @ + value],
            !.locks = [@ EXCEPT ![lockId] =
                [depositor |-> sender, recipient |-> targetAddress,
                 amount |-> value, secretHash |-> hashedSecret,
                 timelock |-> durationSeconds,
                 claimed |-> FALSE, refunded |-> FALSE]],
            !.events = [@ EXCEPT ![lockId] = Append(@,
                [type |-> "EVMDepositLocked", lockId |-> lockId,
                 depositor |-> sender, targetAddress |-> targetAddress,
                 amount |-> value, hashedSecret |-> hashedSecret,
                 timelock |-> durationSeconds])]]]

\* createLock with the "LockId already exists" check left out
createLock_Overwrites(st, now, sender, value, lockId, targetAddress, hashedSecret, durationSeconds) ==
    IF st.bal[sender] < value THEN Revert(st, "insufficient funds")
    ELSE IF ~(value > 0) THEN Revert(st, "Amount must be greater than 0")
    ELSE [err |-> "ok",
          st |-> [st EXCEPT
            !.bal = [@ EXCEPT ![sender] = @ - value, ![HTLC] = @ + value],
            !.locks = [@ EXCEPT ![lockId] =
                [depositor |-> sender, recipient |-> targetAddress,
                 amount |-> value, secretHash |-> hashedSecret,
                 timelock |-> now + durationSeconds,
                 claimed |-> FALSE, refunded |-> FALSE]],
            !.events = [@ EXCEPT ![lockId] = Append(@,
                [type |-> "EVMDepositLocked", lockId |-> lockId,
                 depositor |-> sender, targetAddress |-> targetAddress,
                 amount |-> value, hashedSecret |-> hashedSecret,
                 timelock |-> now + durationSeconds])]]]

createLock(st, now, sender, value, lockId, targetAddress, hashedSecret, durationSeconds) ==
    IF st.bal[sender] < value THEN Revert(st, "insufficient funds")
    ELSE IF ~(value > 0) THEN Revert(st, "Amount must be greater than 0")
    ELSE IF ~(st.locks[lockId].depositor = ZeroAddress)
        THEN Revert(st, "LockId already exists")
    ELSE [err |-> "ok",
          st |-> [st EXCEPT
            !.bal = [@ EXCEPT ![sender] = @ - value, ![HTLC] = @ + value],
            !.locks = [@ EXCEPT ![lockId] =
                [depositor |-> sender, recipient |-> targetAddress,
                 amount |-> value, secretHash |-> hashedSecret,
                 timelock |-> now + durationSeconds,
                 claimed |-> FALSE, refunded |-> FALSE]],
            !.events = [@ EXCEPT ![lockId] = Append(@,
                [type |-> "EVMDepositLocked", lockId |-> lockId,
                 depositor |-> sender, targetAddress |-> targetAddress,
                 amount |-> value, hashedSecret |-> hashedSecret,
                 timelock |-> now + durationSeconds])]]]

\* redeem that burns the lock on a wrong secret: the call fails, the lock
\* is marked claimed all the same
redeem_ConsumesOnMismatch(st, now, sender, lockId, revealedSecret) ==
    LET lock_ == st.locks[lockId] IN
    IF ~(lock_.recipient = sender) THEN Revert(st, "Not the recipient")
    ELSE IF lock_.claimed THEN Revert(st, "Already claimed")
    ELSE IF lock_.refunded THEN Revert(st, "Already refunded")
    ELSE IF ~(lock_.timelock > now) THEN Revert(st, "Timelock expired")
    ELSE IF ~(lock_.secretHash = sha256(revealedSecret))
        THEN Revert([st EXCEPT !.locks = [@ EXCEPT ![lockId].claimed = TRUE]],
                    "Invalid secret")
    ELSE IF ~Sent(st, sender, lock_.amount) THEN Revert(st, "Failed to send Ether")
    ELSE [err |-> "ok",
          st |-> [Pay(st, lockId, sender, lock_.amount) EXCEPT
            !.locks = [@ EXCEPT ![lockId].claimed = TRUE],
            !.events = [@ EXCEPT ![lockId] = Append(@,
                [type |-> "EVMClaimed", lockId |-> lockId,
                 revealedSecret |-> revealedSecret])]]]

\* redeem that logs the secret it was given even when the hash check fails
redeem_LogsRejectedSecret(st, now, sender, lockId, revealedSecret) ==
    LET lock_ == st.locks[lockId] IN
    IF ~(lock_.recipient = sender) THEN Revert(st, "Not the recipient")
    ELSE IF lock_.claimed THEN Revert(st, "Already claimed")
    ELSE IF lock_.refunded THEN Revert(st, "Already refunded")
    ELSE IF ~(lock_.timelock > now) THEN Revert(st, "Timelock expired")
    ELSE IF ~(lock_.secretHash = sha256(revealedSecret))
        THEN Revert([st EXCEPT !.events = [@ EXCEPT ![lockId] = Append(@,
                [type |-> "EVMClaimed", lockId |-> lockId,
                 revealedSecret |-> revealedSecret])]], "Invalid secret")
    ELSE IF ~Sent(st, sender, lock_.amount) THEN Revert(st, "Failed to send Ether")
    ELSE [err |-> "ok",
          st |-> [Pay(st, lockId, sender, lock_.amount) EXCEPT
            !.locks = [@ EXCEPT ![lockId].claimed = TRUE],
            !.events = [@ EXCEPT ![lockId] = Append(@,
                [type |-> "EVMClaimed", lockId |-> lockId,
                 revealedSecret |-> revealedSecret])]]]

\* redeem comparing the stored hash with the Keccak-256 digest of the secret
redeem_Keccak256(st, now, sender, lockId, revealedSecret) ==
    LET lock_ == st.locks[lockId] IN
    IF ~(lock_.recipient = sender) THEN Revert(st, "Not the recipient")
    ELSE IF lock_.claimed THEN Revert(st, "Already claimed")
    ELSE IF lock_.refunded THEN Revert(st, "Already refunded")
    ELSE IF ~(lock_.timelock > now) THEN Revert(st, "Timelock expired")
    ELSE IF ~(lock_.secretHash = keccak256(revealedSecret))
        THEN Revert(st, "Invalid secret")
    ELSE IF ~Sent(st, sender, lock_.amount) THEN Revert(st, "Failed to send Ether")
    ELSE [err |-> "ok",
          st |-> [Pay(st, lockId, sender, lock_.amount) EXCEPT
            !.locks = [@ EXCEPT ![lockId].claimed = TRUE],
            !.events = [@ EXCEPT ![lockId] = Append(@,
                [type |-> "EVMClaimed", lockId |-> lockId,
                 revealedSecret |-> revealedSecret])]]]

\* redeem with the hash check left out
redeem_AnySecret(st, now, sender, lockId, revealedSecret) ==
    LET lock_ == st.locks[lockId] IN
    IF ~(lock_.recipient = sender) THEN Revert(st, "Not the recipient")
    ELSE IF lock_.claimed THEN Revert(st, "Already claimed")
    ELSE IF lock_.refunded THEN Revert(st, "Already refunded")
    ELSE IF ~(lock_.timelock > now) THEN Revert(st, "Timelock expired")
    ELSE IF ~Sent(st, sender, lock_.amount) THEN Revert(st, "Failed to send Ether")
    ELSE [err |-> "ok",
          st |-> [Pay(st, lockId, sender, lock_.amount) EXCEPT
            !.locks = [@ EXCEPT ![lockId].claimed = TRUE],
            !.events = [@ EXCEPT ![lockId] = Append(@,
                [type |-> "EVMClaimed", lockId |-> lockId,
                 revealedSecret |-> revealedSecret])]]]

redeem(st, now, sender, lockId, revealedSecret) ==
    LET lock_ == st.locks[lockId] IN
    IF ~(lock_.recipient = sender) THEN Revert(st, "Not the recipient")
    ELSE IF lock_.claimed THEN Revert(st, "Already claimed")
    ELSE IF lock_.refunded THEN Revert(st, "Already refunded")
    ELSE IF ~(lock_.timelock > now) THEN Revert(st, "Timelock expired")
    ELSE IF ~(lock_.secretHash = sha256(revealedSecret))
        THEN Revert(st, "Invalid secret")
    ELSE IF ~Sent(st, sender, lock_.amount) THEN Revert(st, "Failed to send Ether")
    ELSE [err |-> "ok",
          st |-> [Pay(st, lockId, sender, lock_.amount) EXCEPT
            !.locks = [@ EXCEPT ![lockId].claimed = TRUE],
            !.events = [@ EXCEPT ![lockId] = Append(@,
                [type |-> "EVMClaimed", lockId |-> lockId,
                 revealedSecret |-> revealedSecret])]]]

\* refund with the "Already claimed" check left out
refund_NoClaimedCheck(st, now, sender, lockId) ==
    LET lock_ == st.locks[lockId] IN
    IF ~(lock_.depositor = sender) THEN Revert(st, "Not the depositor")
    ELSE IF lock_.refunded THEN Revert(st, "Already refunded")
    ELSE IF ~(lock_.timelock <= now) THEN Revert(st, "Timelock not expired")
    ELSE IF ~Sent(st, sender, lock_.amount) THEN Revert(st, "Failed to send Ether")
    ELSE [err |-> "ok",
          st |-> [Pay(st, lockId, sender, lock_.amount) EXCEPT
            !.locks = [@ EXCEPT ![lockId].refunded = TRUE],
            !.events = [@ EXCEPT ![lockId] = Append(@,
                [type |-> "EVMRefunded", lockId |-> lockId])]]]

refund(st, now, sender, lockId) ==
    LET lock_ == st.locks[lockId] IN
    IF ~(lock_.depositor = sender) THEN Revert(st, "Not the depositor")
    ELSE IF lock_.claimed THEN Revert(st, "Already claimed")
    ELSE IF lock_.refunded THEN Revert(st, "Already refunded")
    ELSE IF ~(lock_.timelock <= now) THEN Revert(st, "Timelock not expired")
    ELSE IF ~Sent(st, sender, lock_.amount) THEN Revert(st, "Failed to send Ether")
    ELSE [err |-> "ok",
          st |-> [Pay(st, lockId, sender, lock_.amount) EXCEPT
            !.locks = [@ EXCEPT ![lockId].refunded = TRUE],
            !.events = [@ EXCEPT ![lockId] = Append(@,
                [type |-> "EVMRefunded", lockId |-> lockId])]]]

EvmApply(r) ==
    /\ locks' = r.st.locks
    /\ ethBalance' = r.st.bal
    /\ evmEvents' = r.st.events
    /\ evmPaid' = r.st.paid

(***************************************************************************)
(* Calls made by contract accounts.  msg.sender.call{value: amount}("")    *)
(* hands control to the receiver: EvmRejecting reverts, and EvmReentering  *)
(* makes one call back into HTLC before it returns.  The ether has arrived *)
(* and the writes made so far are in place when the call back runs.  A     *)
(* call back that reverts either is caught by the receiver or makes the    *)
(* receiver revert, and then the transfer reports sent = false.            *)
(***************************************************************************)
Callbacks ==
    [fn : {"none"}, lockId : {sha256(S1)}, secret : {S1}, catches : {TRUE}]
        \cup [fn : {"redeem", "refund"}, lockId : LockIds, secret : {S1},
              catches : BOOLEAN]
NoCallback == [fn |-> "none", lockId |-> sha256(S1), secret |-> S1, catches |-> TRUE]

Rejected(st, msg) == [err |-> msg, st |-> st, inner |-> "none"]

Transfer(st, now, lockId, to, amount, cb) ==
    IF ~Sent(st, to, amount) THEN [sent |-> FALSE, st |-> st, inner |-> "none"]
    ELSE LET paid == Pay(st, lockId, to, amount)
             inner == IF to # EvmReentering \/ cb.fn = "none"
                          THEN [err |-> "none", st |-> paid]
                      ELSE IF cb.fn = "redeem"
                          THEN redeem(paid, now, to, cb.lockId, cb.secret)
                      ELSE refund(paid, now, to, cb.lockId)
         IN IF inner.err \notin {"ok", "none"} /\ ~cb.catches
            THEN [sent |-> FALSE, st |-> st, inner |-> inner.err]
            ELSE [sent |-> TRUE, st |-> inner.st, inner |-> inner.err]

\* redeem that sets claimed only after the transfer has returned
redeemByContract_FlagAfterTransfer(st, now, sender, lockId, revealedSecret, cb) ==
    LET lock_ == st.locks[lockId] IN
    IF ~(lock_.recipient = sender) THEN Rejected(st, "Not the recipient")
    ELSE IF lock_.claimed THEN Rejected(st, "Already claimed")
    ELSE IF lock_.refunded THEN Rejected(st, "Already refunded")
    ELSE IF ~(lock_.timelock > now) THEN Rejected(st, "Timelock expired")
    ELSE IF ~(lock_.secretHash = sha256(revealedSecret))
        THEN Rejected(st, "Invalid secret")
    ELSE LET t == Transfer(st, now, lockId, sender, lock_.amount, cb)
         IN IF ~t.sent
            THEN [err |-> "Failed to send Ether", st |-> st, inner |-> t.inner]
            ELSE [err |-> "ok", inner |-> t.inner,
                  st |-> [t.st EXCEPT
                    !.locks = [@ EXCEPT ![lockId].claimed = TRUE],
                    !.events = [@ EXCEPT ![lockId] = Append(@,
                        [type |-> "EVMClaimed", lockId |-> lockId,
                         revealedSecret |-> revealedSecret])]]]

redeemByContract(st, now, sender, lockId, revealedSecret, cb) ==
    LET lock_ == st.locks[lockId] IN
    IF ~(lock_.recipient = sender) THEN Rejected(st, "Not the recipient")
    ELSE IF lock_.claimed THEN Rejected(st, "Already claimed")
    ELSE IF lock_.refunded THEN Rejected(st, "Already refunded")
    ELSE IF ~(lock_.timelock > now) THEN Rejected(st, "Timelock expired")
    ELSE IF ~(lock_.secretHash = sha256(revealedSecret))
        THEN Rejected(st, "Invalid secret")
    ELSE LET flagged == [st EXCEPT !.locks = [@ EXCEPT ![lockId].claimed = TRUE]]
             t == Transfer(flagged, now, lockId, sender, lock_.amount, cb)
         IN IF ~t.sent
            THEN [err |-> "Failed to send Ether", st |-> st, inner |-> t.inner]
            ELSE [err |-> "ok", inner |-> t.inner,
                  st |-> [t.st EXCEPT
                    !.events = [@ EXCEPT ![lockId] = Append(@,
                        [type |-> "EVMClaimed", lockId |-> lockId,
                         revealedSecret |-> revealedSecret])]]]

\* refund that deletes the lock once it has paid
refundByContract_ClearsLock(st, now, sender, lockId, cb) ==
    LET lock_ == st.locks[lockId] IN
    IF ~(lock_.depositor = sender) THEN Rejected(st, "Not the depositor")
    ELSE IF lock_.claimed THEN Rejected(st, "Already claimed")
    ELSE IF lock_.refunded THEN Rejected(st, "Already refunded")
    ELSE IF ~(lock_.timelock <= now) THEN Rejected(st, "Timelock not expired")
    ELSE LET flagged == [st EXCEPT !.locks = [@ EXCEPT ![lockId].refunded = TRUE]]
             t == Transfer(flagged, now, lockId, sender, lock_.amount, cb)
         IN IF ~t.sent
            THEN [err |-> "Failed to send Ether", st |-> st, inner |-> t.inner]
            ELSE [err |-> "ok", inner |-> t.inner,
                  st |-> [t.st EXCEPT
                    !.locks = [@ EXCEPT ![lockId] = EmptyLock],
                    !.events = [@ EXCEPT ![lockId] = Append(@,
                        [type |-> "EVMRefunded", lockId |-> lockId])]]]

\* refund that goes on when the transfer reports sent = false
refundByContract_IgnoresSendFailure(st, now, sender, lockId, cb) ==
    LET lock_ == st.locks[lockId] IN
    IF ~(lock_.depositor = sender) THEN Rejected(st, "Not the depositor")
    ELSE IF lock_.claimed THEN Rejected(st, "Already claimed")
    ELSE IF lock_.refunded THEN Rejected(st, "Already refunded")
    ELSE IF ~(lock_.timelock <= now) THEN Rejected(st, "Timelock not expired")
    ELSE LET flagged == [st EXCEPT !.locks = [@ EXCEPT ![lockId].refunded = TRUE]]
             t == Transfer(flagged, now, lockId, sender, lock_.amount, cb)
         IN [err |-> "ok", inner |-> t.inner,
             st |-> [t.st EXCEPT
                !.events = [@ EXCEPT ![lockId] = Append(@,
                    [type |-> "EVMRefunded", lockId |-> lockId])]]]

refundByContract(st, now, sender, lockId, cb) ==
    LET lock_ == st.locks[lockId] IN
    IF ~(lock_.depositor = sender) THEN Rejected(st, "Not the depositor")
    ELSE IF lock_.claimed THEN Rejected(st, "Already claimed")
    ELSE IF lock_.refunded THEN Rejected(st, "Already refunded")
    ELSE IF ~(lock_.timelock <= now) THEN Rejected(st, "Timelock not expired")
    ELSE LET flagged == [st EXCEPT !.locks = [@ EXCEPT ![lockId].refunded = TRUE]]
             t == Transfer(flagged, now, lockId, sender, lock_.amount, cb)
         IN IF ~t.sent
            THEN [err |-> "Failed to send Ether", st |-> st, inner |-> t.inner]
            ELSE [err |-> "ok", inner |-> t.inner,
                  st |-> [t.st EXCEPT
                    !.events = [@ EXCEPT ![lockId] = Append(@,
                        [type |-> "EVMRefunded", lockId |-> lockId])]]]

(***************************************************************************)
(* Sui ledger: module htlc::htlc                                           *)
(***************************************************************************)
SuiWallet == "0xsw"            \* SuiService.walletAddress
SuiOther == "0xso"
SuiThird == "0xst"
SuiStranger == "0xsx"
SuiAddrs == {SuiWallet, SuiOther, SuiThird, SuiStranger}

SuiState == [objects |-> objects, created |-> suiCreated, bal |-> suiBalance,
             events |-> suiEvents, paid |-> suiPaid]

Abort(st, code) == [err |-> code, st |-> st]

\* object::new(ctx): an id no object had before
NewObjectId(st) == Cardinality(DOMAIN st.created) + 1

\* the transfer without object::delete(id): the lock object stays shared
TransferAndDelete_KeepsObject(st, id, to) ==
    [st EXCEPT
        !.bal = [@ EXCEPT ![to] = @ + st.objects[id].coin],
        !.paid = [@ EXCEPT ![id] = Append(@, [to |-> to, amount |-> st.objects[id].coin])]]

\* transfer::public_transfer(coin, to) followed by object::delete(id)
TransferAndDelete(st, id, to) ==
    [st EXCEPT
        !.objects = [o \in DOMAIN st.objects \ {id} |-> st.objects[o]],
        !.bal = [@ EXCEPT ![to] = @ + st.objects[id].coin],
        !.paid = [@ EXCEPT ![id] = Append(@, [to |-> to, amount |-> st.objects[id].coin])]]

htlc_createLock(st, timestamp, sender, durationMillis, hashedSecret, targetAddress, refund_, amount, secret_length) ==
    IF st.bal[sender] < amount THEN Abort(st, "InsufficientCoinBalance")
    ELSE LET id == NewObjectId(st)
             lock == [id |-> id, created_at |-> timestamp,
                      deadline |-> timestamp + durationMillis,
                      hashed |-> hashedSecret, refund_adr |-> refund_,
                      target_adr |-> targetAddress, initiator |-> sender,
                      secret_length |-> secret_length, coin |-> amount]
         IN [err |-> "ok",
             st |-> [st EXCEPT
                !.bal = [@ EXCEPT ![sender] = @ - amount],
                !.objects = [o \in DOMAIN st.objects \cup {id} |->
                                IF o = id THEN lock ELSE st.objects[o]],
                !.created = [o \in DOMAIN st.created \cup {id} |->
                                IF o = id THEN lock ELSE st.created[o]],
                !.events = [o \in DOMAIN st.events \cup {id} |->
                    IF o = id
                    THEN <<[type |-> "NewLockEvent", lock |-> id,
                            hash |-> hashedSecret, refund_adr |-> refund_,
                            target_adr |-> targetAddress, initiator |-> sender,
                            deadline |-> timestamp + durationMillis,
                            duration |-> durationMillis,
                            secret_length |-> secret_length]>>
                    ELSE st.events[o]],
                !.paid = [o \in DOMAIN st.paid \cup {id} |->
                                IF o = id THEN <<>> ELSE st.paid[o]]]]

\* redeem that hands the coin to whoever submitted the claim
htlc_redeem_PaysCaller(st, timestamp, sender, id, revealedSecret) ==
    IF id \notin DOMAIN st.objects THEN Abort(st, "ObjectNotFound")
    ELSE LET lock == st.objects[id] IN
    IF ~(lock.secret_length = revealedSecret.len) THEN Abort(st, "ESecretLengthWrong")
    ELSE IF ~(sha256(revealedSecret) = lock.hashed) THEN Abort(st, "ESecretPreimageWrong")
    ELSE [err |-> "ok",
          st |-> [TransferAndDelete(st, id, sender) EXCEPT
            !.events = [@ EXCEPT ![id] = Append(@,
                [type |-> "LockClaimedEvent", lock |-> id,
                 secret |-> revealedSecret, claimer |-> sender])]]]

htlc_redeem(st, timestamp, sender, id, revealedSecret) ==
    IF id \notin DOMAIN st.objects THEN Abort(st, "ObjectNotFound")
    ELSE LET lock == st.objects[id] IN
    IF ~(lock.secret_length = revealedSecret.len) THEN Abort(st, "ESecretLengthWrong")
    ELSE IF ~(sha256(revealedSecret) = lock.hashed) THEN Abort(st, "ESecretPreimageWrong")
    ELSE [err |-> "ok",
          st |-> [TransferAndDelete(st, id, lock.target_adr) EXCEPT
            !.events = [@ EXCEPT ![id] = Append(@,
                [type |-> "LockClaimedEvent", lock |-> id,
                 secret |-> revealedSecret, claimer |-> sender])]]]

\* refund open to any signer
htlc_refund_AnyCaller(st, timestamp, sender, id) ==
    IF id \notin DOMAIN st.objects THEN Abort(st, "ObjectNotFound")
    ELSE LET lock == st.objects[id] IN
    IF ~(timestamp > lock.deadline) THEN Abort(st, "ERefundEarly")
    ELSE [err |-> "ok",
          st |-> [TransferAndDelete(st, id, lock.refund_adr) EXCEPT
            !.events = [@ EXCEPT ![id] = Append(@,
                [type |-> "LockRefundedEvent", lock |-> id, signer_ |-> sender])]]]

\* refund that opens at the deadline itself (>= in place of >)
htlc_refund_AtDeadline(st, timestamp, sender, id) ==
    IF id \notin DOMAIN st.objects THEN Abort(st, "ObjectNotFound")
    ELSE LET lock == st.objects[id] IN
    IF ~(sender = lock.refund_adr \/ sender = lock.initiator \/ sender = lock.target_adr)
        THEN Abort(st, "ERefund3rdParty")
    ELSE IF ~(timestamp >= lock.deadline) THEN Abort(st, "ERefundEarly")
    ELSE [err |-> "ok",
          st |-> [TransferAndDelete(st, id, lock.refund_adr) EXCEPT
            !.events = [@ EXCEPT ![id] = Append(@,
                [type |-> "LockRefundedEvent", lock |-> id, signer_ |-> sender])]]]

htlc_refund(st, timestamp, sender, id) ==
    IF id \notin DOMAIN st.objects THEN Abort(st, "ObjectNotFound")
    ELSE LET lock == st.objects[id] IN
    IF ~(sender = lock.refund_adr \/ sender = lock.initiator \/ sender = lock.target_adr)
        THEN Abort(st, "ERefund3rdParty")
    ELSE IF ~(timestamp > lock.deadline) THEN Abort(st, "ERefundEarly")
    ELSE [err |-> "ok",
          st |-> [TransferAndDelete(st, id, lock.refund_adr) EXCEPT
            !.events = [@ EXCEPT ![id] = Append(@,
                [type |-> "LockRefundedEvent", lock |-> id, signer_ |-> sender])]]]

SuiApply(r) ==
    /\ objects' = r.st.objects
    /\ suiCreated' = r.st.created
    /\ suiBalance' = r.st.bal
    /\ suiEvents' = r.st.events
    /\ suiPaid' = r.st.paid

(***************************************************************************)
(* Callers other than the orchestrator: any account may submit any call.   *)
(***************************************************************************)
EvmParties == {<<EvmWallet, EvmWallet>>, <<EvmWallet, EvmOther>>,
               <<EvmWallet, EvmRejecting>>, <<EvmRejecting, EvmWallet>>}
SuiParties == {<<SuiWallet, SuiWallet, SuiWallet>>,
               <<SuiWallet, SuiOther, SuiThird>>}
EvmValues == {0, 2}
SuiValues == {0, 2}
Durations == {TAKER}
SuiHashes == {<<sha256(S1), SecretBytes>>, <<sha256(S3), SecretBytes>>,
              <<sha256(S3), SecretBytes - 1>>}

LocksCreated ==
    Cardinality({id \in LockIds : locks[id] # EmptyLock})
        + Cardinality(DOMAIN suiCreated)

otherVars(which) ==
    CASE which = "evm" -> UNCHANGED <<evmNow, suiVars, suiNow, orch, confirming>>
      [] which = "sui" -> UNCHANGED <<evmVars, evmNow, suiNow, orch, confirming>>

EnvEvmCreateLock ==
    /\ LocksCreated < MaxLocks
    /\ \E p \in EvmParties, lockId \in LockIds, value \in EvmValues,
          d \in Durations :
        EvmApply(createLock(EvmState, evmNow, p[1], value, lockId, p[2],
                            sha256(S1), d))
    /\ otherVars("evm")

EnvEvmRedeem ==
    /\ \E sender \in EvmAddrs, lockId \in LockIds, secret \in Bytes32 :
        EvmApply(redeem(EvmState, evmNow, sender, lockId, secret))
    /\ otherVars("evm")

EnvEvmRefund ==
    /\ \E sender \in EvmAddrs, lockId \in LockIds :
        EvmApply(refund(EvmState, evmNow, sender, lockId))
    /\ otherVars("evm")

EnvSuiCreateLock ==
    /\ LocksCreated < MaxLocks
    /\ \E p \in SuiParties, value \in SuiValues, h \in SuiHashes,
          d \in Durations :
        SuiApply(htlc_createLock(SuiState, suiNow, p[1], d * MsPerSecond, h[1],
                                 p[2], p[3], value, h[2]))
    /\ otherVars("sui")

EnvSuiRedeem ==
    /\ \E sender \in SuiAddrs, id \in DOMAIN suiCreated, secret \in Secrets :
        SuiApply(htlc_redeem(SuiState, suiNow, sender, id, secret))
    /\ otherVars("sui")

EnvSuiRefund ==
    /\ \E sender \in SuiAddrs, id \in DOMAIN suiCreated :
        SuiApply(htlc_refund(SuiState, suiNow, sender, id))
    /\ otherVars("sui")

\* Time passes on both ledgers at the same rate, each in its own unit.
Tick ==
    /\ evmNow < MaxTicks * TickSeconds
    /\ evmNow' = evmNow + TickSeconds
    /\ suiNow' = suiNow + TickSeconds * MsPerSecond
    /\ UNCHANGED <<evmVars, suiVars, orch, confirming>>


(***************************************************************************)
(* Relayer: lib/blockchain/common.ts and the two adapters.                 *)
(* A hex string is the bytes it spells; an amount string is what the       *)
(* parsers read from it: whether it holds a '.', the integer parseInt      *)
(* reads, and the wei parseEther reads (model units).                      *)
(***************************************************************************)
hashSecret(secret) == sha256(secret)
ToHex(b) == [hex |-> b]
FromHex(x) == x.hex                       \* ethers: a 0x string as bytes32
\* generateLockId giving every hash the same identifier
generateLockId_Fixed(secretHash) == ToHex(sha256(S1))

generateLockId(secretHash) == ToHex(secretHash)
formatSecretForDisplay(secret) == ToHex(secret)
formatHashForDisplay(hash) == ToHex(hash)

Amount(text, point, int, wei) ==
    [text |-> text, point |-> point, int |-> int, wei |-> wei]
EthAmount == Amount("0.01", TRUE, 0, 2)            \* MAKER_AMOUNT default
MistAmount == Amount("100000000", FALSE, 2, 200)   \* TAKER_AMOUNT default
SuiDecimal == Amount("0.1", TRUE, 0, 20)           \* SUI given in SUI, not MIST
ExpiryAmount == Amount("0.001", TRUE, 0, 1)        \* demonstrateTimelockExpiry
parseEther(a) == a.wei
parseInt(a) == a.int

Undefined == "undefined"
Malformed == "0xZZ"
\* isAddress accepting every string
isAddress_Any(a) == TRUE

isAddress(a) == a \in EvmAddrs \cup {ZeroAddress}

\* EVMService.createLock: validateAddress, contract.createLock, waitForTransaction
EVMService_createLock(st, now, params) ==
    IF ~isAddress(params.recipient) THEN Revert(st, "Invalid recipient address")
    ELSE createLock(st, now, EvmWallet, parseEther(params.amount),
                    FromHex(params.lockId), params.recipient,
                    FromHex(params.secretHash), params.timelock)

\* EVMService.redeem submitted from the lock's recipient, whoever that is
EVMService_redeem_AsRecipient(st, now, lockId, secret) ==
    redeem(st, now, st.locks[FromHex(lockId)].recipient, FromHex(lockId), FromHex(secret))

EVMService_redeem(st, now, lockId, secret) ==
    redeem(st, now, EvmWallet, FromHex(lockId), FromHex(secret))

EVMService_refund(st, now, lockId) ==
    refund(st, now, EvmWallet, FromHex(lockId))

\* ethers.formatEther: the amount in wei as a decimal string in ether
formatEther(wei) == [ether |-> wei]
\* Number(timelock): exact below 2^53, which every timelock here is
Number(n) == n

\* EVMService.getLock: contract.locks(lockId) is an eth_call, which sends no
\* transaction; the call may throw (the node does not answer), and the catch
\* logs the error and returns null
Null == [null |-> TRUE]
RpcOutcomes == {"answers", "throws"}
EVMService_getLock(st, lockId, rpc) ==
    IF rpc = "throws" THEN Null
    ELSE LET result == IF FromHex(lockId) \in DOMAIN st.locks
                       THEN st.locks[FromHex(lockId)] ELSE EmptyLock
         IN IF result.depositor = ZeroAddress THEN Null
            ELSE [lockId |-> lockId, depositor |-> result.depositor,
                  recipient |-> result.recipient,
                  amount |-> formatEther(result.amount),
                  secretHash |-> ToHex(result.secretHash),
                  timelock |-> Number(result.timelock),
                  claimed |-> result.claimed, refunded |-> result.refunded]

\* SuiService.createLock: the '.' check, parseInt, splitCoins, moveCall
\* createLock with the target and refund addresses passed in each other's place
SuiService_createLock_SwapsAddresses(st, timestamp, params) ==
    IF params.amount.point THEN Abort(st, "SUI amount should be in MIST")
    ELSE htlc_createLock(st, timestamp, SuiWallet,
                         params.duration * MsPerSecond, params.secretHash,
                         params.refundAddress, params.targetAddress,
                         parseInt(params.amount), params.secretLength)

SuiService_createLock(st, timestamp, params) ==
    IF params.amount.point THEN Abort(st, "SUI amount should be in MIST")
    ELSE htlc_createLock(st, timestamp, SuiWallet,
                         params.duration * MsPerSecond, params.secretHash,
                         params.targetAddress, params.refundAddress,
                         parseInt(params.amount), params.secretLength)

\* SuiService.redeem: getObject must find the lock, then the moveCall
SuiService_redeem(st, timestamp, lockObjectId, secret) ==
    IF lockObjectId \notin DOMAIN st.objects THEN Abort(st, "Lock object not found")
    ELSE htlc_redeem(st, timestamp, SuiWallet, lockObjectId, secret)

SuiService_refund(st, timestamp, lockObjectId) ==
    htlc_refund(st, timestamp, SuiWallet, lockObjectId)

\* SuiService.getLock: client.getObject(id) with showContent; an id with no
\* live object (deleted, or never created) comes back without content and
\* gives null; the call may throw, and the catch logs the error and returns
\* null.  claimed and refunded are the literal false.  (amount is read from
\* the node's JSON rendering of the Coin, which is not represented here.)
SuiService_getLock(st, objectId, rpc) ==
    IF rpc = "throws" THEN Null
    ELSE IF objectId \notin DOMAIN st.objects THEN Null
    ELSE LET fields == st.objects[objectId]
         IN [objectId |-> objectId, initiator |-> fields.initiator,
             targetAddress |-> fields.target_adr,
             refundAddress |-> fields.refund_adr,
             secretHash |-> fields.hashed,
             deadline |-> Number(fields.deadline),
             claimed |-> FALSE, refunded |-> FALSE]

(***************************************************************************)
(* SwapOrchestrator: demonstrateEVMToSUI and demonstrateSUIToEVM.          *)
(* A run submits its four ledger calls one after the other; an adapter     *)
(* that throws ends the run (the error propagates to the caller).          *)
(***************************************************************************)
Program(dir) ==
    IF dir = "EVMToSUI"
    THEN <<"evm.createLock", "sui.createLock", "sui.redeem", "evm.redeem">>
    ELSE IF dir = "SUIToEVM"
    THEN <<"sui.createLock", "evm.createLock", "evm.redeem", "sui.redeem">>
    ELSE <<"expiry.createLock", "expiry.sleep", "expiry.refund">>

Running == orch.pc = "running"
Current == IF Running THEN Program(orch.dir)[orch.step] ELSE "none"

\* the lock created first gets MAKER, the one created second TAKER
\* the durations given the other way round: short first, long second
DurationOf_ShortFirst(call) == IF Program(orch.dir)[1] = call THEN TAKER ELSE MAKER

DurationOf(call) == IF Program(orch.dir)[1] = call THEN MAKER ELSE TAKER

\* a run that goes on to the next call whatever the previous one returned
Proceed_IgnoresFailure(call, r, clocks) ==
    [orch EXCEPT !.calls = Append(@, call),
                 !.step = @ + 1,
                 !.pc = IF orch.step = 4 THEN "done" ELSE "running",
                 !.suiLockId = IF call = "sui.createLock" /\ r.err = "ok"
                               THEN NewObjectId(SuiState) ELSE @,
                 !.createdAt = IF orch.step <= 2 /\ r.err = "ok"
                               THEN Append(@, clocks) ELSE @,
                 !.revealedAt = IF orch.step = 3 THEN clocks ELSE @,
                 !.err = IF r.err = "ok" THEN @ ELSE r.err]

Proceed(call, r, clocks) ==
    IF r.err = "ok"
    THEN [orch EXCEPT !.calls = Append(@, call),
                      !.step = @ + 1,
                      !.pc = IF orch.step = 4 THEN "done" ELSE "running",
                      !.suiLockId = IF call = "sui.createLock"
                                    THEN NewObjectId(SuiState) ELSE @,
                      !.createdAt = IF orch.step <= 2 THEN Append(@, clocks) ELSE @,
                      !.revealedAt = IF orch.step = 3 THEN clocks ELSE @]
    ELSE [orch EXCEPT !.calls = Append(@, call), !.pc = "failed", !.err = r.err]

Clocks == [evm |-> evmNow, sui |-> suiNow]
NoClocks == [evm |-> -1, sui |-> -1]

\* the locals of a demo as it starts; demo is its place in runFullDemo, 0
\* for a demo run on its own
NewRun(demo, dir, secret, makerAmount, takerAmount, ethDestination, suiDestination) ==
    [pc |-> "running", dir |-> dir, step |-> 1, demo |-> demo,
     secret |-> secret,
     secretHash |-> hashSecret(secret),
     lockId |-> generateLockId(hashSecret(secret)),
     suiLockId |-> 0,
     ethAmount |-> IF dir = "EVMToSUI" THEN makerAmount ELSE takerAmount,
     suiAmount |-> IF dir = "EVMToSUI" THEN takerAmount ELSE makerAmount,
     ethDestination |-> IF ethDestination = Undefined
                        THEN EvmWallet ELSE ethDestination,
     suiDestination |-> IF suiDestination = Undefined
                        THEN SuiWallet ELSE suiDestination,
     calls |-> <<>>, err |-> "none", createdAt |-> <<>>,
     revealedAt |-> NoClocks]

Start(dir, makerAmount, takerAmount, ethDestination, suiDestination) ==
    /\ orch.pc = "idle"
    /\ \E secret \in Bytes32 :
        orch' = NewRun(0, dir, secret, makerAmount, takerAmount,
                       ethDestination, suiDestination)
    /\ UNCHANGED <<evmVars, evmNow, suiVars, suiNow, confirming>>

demonstrateEVMToSUI ==
    \E takerAmount \in {MistAmount, SuiDecimal},
       makerSui \in {Undefined, SuiOther},
       takerEth \in {Undefined, EvmOther, Malformed} :
        Start("EVMToSUI", EthAmount, takerAmount, takerEth, makerSui)

demonstrateSUIToEVM ==
    \E makerAmount \in {MistAmount, SuiDecimal},
       makerEth \in {Undefined, EvmOther, Malformed},
       takerSui \in {Undefined, SuiOther} :
        Start("SUIToEVM", makerAmount, EthAmount, makerEth, takerSui)

OrchEvmCreateLock ==
    /\ Current = "evm.createLock"
    /\ confirming
    /\ LET r == EVMService_createLock(EvmState, evmNow,
                    [lockId |-> orch.lockId, recipient |-> orch.ethDestination,
                     secretHash |-> formatHashForDisplay(orch.secretHash),
                     timelock |-> DurationOf("evm.createLock"),
                     amount |-> orch.ethAmount])
       IN EvmApply(r) /\ orch' = Proceed("evm.createLock", r, Clocks)
    /\ UNCHANGED <<evmNow, suiVars, suiNow, confirming>>

OrchSuiCreateLock ==
    /\ Current = "sui.createLock"
    /\ LET r == SuiService_createLock(SuiState, suiNow,
                    [duration |-> DurationOf("sui.createLock"),
                     secretHash |-> orch.secretHash,
                     targetAddress |-> orch.suiDestination,
                     refundAddress |-> SuiWallet,
                     amount |-> orch.suiAmount,
                     secretLength |-> SecretBytes])
       IN SuiApply(r) /\ orch' = Proceed("sui.createLock", r, Clocks)
    /\ UNCHANGED <<evmVars, evmNow, suiNow, confirming>>

OrchSuiRedeem ==
    /\ Current = "sui.redeem"
    /\ LET r == SuiService_redeem(SuiState, suiNow, orch.suiLockId, orch.secret)
       IN SuiApply(r) /\ orch' = Proceed("sui.redeem", r, Clocks)
    /\ UNCHANGED <<evmVars, evmNow, suiNow, confirming>>

OrchEvmRedeem ==
    /\ Current = "evm.redeem"
    /\ confirming
    /\ LET r == EVMService_redeem(EvmState, evmNow, orch.lockId,
                                  formatSecretForDisplay(orch.secret))
       IN EvmApply(r) /\ orch' = Proceed("evm.redeem", r, Clocks)
    /\ UNCHANGED <<evmNow, suiVars, suiNow, confirming>>

(***************************************************************************)
(* The parties of a swap acting on their own, outside the orchestrator's   *)
(* run: any account may refund, and may redeem with a secret that a claim  *)
(* event has already published.                                            *)
(***************************************************************************)
Revealed ==
    {evmEvents[id][i].revealedSecret :
        <<id, i>> \in {x \in LockIds \X (1..3) :
            x[2] <= Len(evmEvents[x[1]])
            /\ evmEvents[x[1]][x[2]].type = "EVMClaimed"}}
    \cup
    {suiEvents[id][i].secret :
        <<id, i>> \in {x \in (DOMAIN suiEvents) \X (1..3) :
            x[2] <= Len(suiEvents[x[1]])
            /\ suiEvents[x[1]][x[2]].type = "LockClaimedEvent"}}

PartyEvmRedeem ==
    /\ \E sender \in EvmAddrs, lockId \in LockIds, secret \in Revealed \cap Bytes32 :
        EvmApply(redeem(EvmState, evmNow, sender, lockId, secret))
    /\ otherVars("evm")

PartySuiRedeem ==
    /\ \E sender \in SuiAddrs, id \in DOMAIN suiCreated, secret \in Revealed :
        SuiApply(htlc_redeem(SuiState, suiNow, sender, id, secret))
    /\ otherVars("sui")

(***************************************************************************)
(* Specifications.  Spec: any account submits any call to either contract. *)
(* SwapSpec: one orchestrator run, with the parties acting beside it.      *)
(***************************************************************************)
Idle == [pc |-> "idle", dir |-> "none", step |-> 0, demo |-> 0, secret |-> S1,
         secretHash |-> ZeroHash, lockId |-> ToHex(ZeroHash), suiLockId |-> 0,
         ethAmount |-> Amount("", FALSE, 0, 0), suiAmount |-> Amount("", FALSE, 0, 0),
         ethDestination |-> Undefined, suiDestination |-> Undefined,
         calls |-> <<>>, err |-> "none", createdAt |-> <<>>,
         revealedAt |-> [evm |-> -1, sui |-> -1]]


Init ==
    /\ locks = [id \in LockIds |-> EmptyLock]
    /\ ethBalance = [a \in EvmAccounts |-> IF a = HTLC THEN 0 ELSE InitialBalance]
    /\ evmEvents = [id \in LockIds |-> <<>>]
    /\ evmPaid = [id \in LockIds |-> <<>>]
    /\ evmNow = 0
    /\ objects = <<>>
    /\ suiCreated = <<>>
    /\ suiBalance = [a \in SuiAddrs |-> InitialBalance]
    /\ suiEvents = <<>>
    /\ suiPaid = <<>>
    /\ suiNow = 0
    /\ orch = Idle
    /\ confirming = TRUE

Next ==
    \/ EnvEvmCreateLock
    \/ EnvEvmRedeem
    \/ EnvEvmRefund
    \/ EnvSuiCreateLock
    \/ EnvSuiRedeem
    \/ EnvSuiRefund
    \/ Tick

Spec == Init /\ [][Next]_vars

SwapNext ==
    \/ demonstrateEVMToSUI
    \/ demonstrateSUIToEVM
    \/ OrchEvmCreateLock
    \/ OrchSuiCreateLock
    \/ OrchSuiRedeem
    \/ OrchEvmRedeem
    \/ PartyEvmRedeem
    \/ PartySuiRedeem
    \/ EnvEvmRefund
    \/ EnvSuiRefund
    \/ Tick

SwapSpec == Init /\ [][SwapNext]_vars

(***************************************************************************)
(* The same runs on a network whose EVM node may stop confirming: from     *)
(* then on provider.waitForTransaction(txHash), called with no timeout,    *)
(* never resolves, and the await in EVMService never returns.  An await    *)
(* returns once its promise settles, and the clocks go on: these steps are *)
(* weakly fair.  The parties' own calls may never come.                    *)
(***************************************************************************)
Stall ==
    /\ confirming
    /\ confirming' = FALSE
    /\ UNCHANGED <<evmVars, evmNow, suiVars, suiNow, orch>>

SwapWaitNext ==
    \/ SwapNext
    \/ Stall

SwapWaitSpec ==
    /\ Init /\ [][SwapWaitNext]_vars
    /\ WF_vars(OrchEvmCreateLock) /\ WF_vars(OrchSuiCreateLock)
    /\ WF_vars(OrchSuiRedeem) /\ WF_vars(OrchEvmRedeem)
    /\ WF_vars(Tick)

(***************************************************************************)
(* SwapOrchestrator.runFullDemo: demonstrateEVMToSUI, demonstrateSUIToEVM  *)
(* and demonstrateTimelockExpiry one after the other inside one try block, *)
(* whose catch logs the error and throws it again.  Each demo draws its    *)
(* own secret, so the three EVM locks have three ids.  The third demo      *)
(* creates an EVM lock of ShortTimelock seconds for the wallet itself,     *)
(* sleeps until it has expired and refunds it; a failure of that refund is *)
(* caught and logged inside the demo.                                      *)
(***************************************************************************)
DemoSecret(demo) == <<S1, S2, S4>>[demo]

MayStart_AfterFailure(demo) ==
    IF demo = 1 THEN orch.pc = "idle"
    ELSE orch.pc \in {"done", "failed"} /\ orch.demo = demo - 1

\* the awaits of runFullDemo: a demo starts when the one before has returned
MayStart(demo) ==
    IF demo = 1 THEN orch.pc = "idle"
    ELSE orch.pc = "done" /\ orch.demo = demo - 1

FullDemoEVMToSUI ==
    /\ MayStart(1)
    /\ \E takerAmount \in {MistAmount, SuiDecimal},
          makerSui \in {Undefined, SuiOther},
          takerEth \in {Undefined, EvmOther, Malformed} :
        orch' = NewRun(1, "EVMToSUI", DemoSecret(1), EthAmount, takerAmount,
                       takerEth, makerSui)
    /\ UNCHANGED <<evmVars, evmNow, suiVars, suiNow, confirming>>

FullDemoSUIToEVM ==
    /\ MayStart(2)
    /\ \E makerEth \in {Undefined, EvmOther, Malformed},
          takerSui \in {Undefined, SuiOther} :
        orch' = NewRun(2, "SUIToEVM", DemoSecret(2), orch.suiAmount, orch.ethAmount,
                       makerEth, takerSui)
    /\ UNCHANGED <<evmVars, evmNow, suiVars, suiNow, confirming>>

FullDemoTimelockExpiry ==
    /\ MayStart(3)
    /\ orch' = NewRun(3, "TimelockExpiry", DemoSecret(3), Amount("", FALSE, 0, 0),
                      ExpiryAmount, EvmWallet, Undefined)
    /\ UNCHANGED <<evmVars, evmNow, suiVars, suiNow, confirming>>

ExpiryCreateLock ==
    /\ Current = "expiry.createLock"
    /\ confirming
    /\ LET r == EVMService_createLock(EvmState, evmNow,
                    [lockId |-> orch.lockId, recipient |-> EvmWallet,
                     secretHash |-> formatHashForDisplay(orch.secretHash),
                     timelock |-> ShortTimelock,
                     amount |-> ExpiryAmount])
       IN /\ EvmApply(r)
          /\ orch' = IF r.err = "ok"
                     THEN [orch EXCEPT !.calls = Append(@, "evm.createLock"),
                                       !.step = @ + 1]
                     ELSE [orch EXCEPT !.calls = Append(@, "evm.createLock"),
                                       !.pc = "failed", !.err = r.err]
    /\ UNCHANGED <<evmNow, suiVars, suiNow, confirming>>

\* await sleep((shortTimelock + 5) * 1000)
ExpirySleep ==
    /\ Current = "expiry.sleep"
    /\ evmNow' = evmNow + ShortTimelock + ExpiryBuffer
    /\ suiNow' = suiNow + (ShortTimelock + ExpiryBuffer) * MsPerSecond
    /\ orch' = [orch EXCEPT !.step = @ + 1]
    /\ UNCHANGED <<evmVars, suiVars, confirming>>

\* the refund outside any try / catch: a refund that fails ends the demo
ExpiryRefund_Propagates ==
    /\ Current = "expiry.refund"
    /\ confirming
    /\ LET r == EVMService_refund(EvmState, evmNow, orch.lockId)
       IN /\ EvmApply(r)
          /\ orch' = IF r.err = "ok"
                     THEN [orch EXCEPT !.calls = Append(@, "evm.refund"),
                                       !.step = @ + 1, !.pc = "done"]
                     ELSE [orch EXCEPT !.calls = Append(@, "evm.refund"),
                                       !.pc = "failed", !.err = r.err]
    /\ UNCHANGED <<evmNow, suiVars, suiNow, confirming>>

\* the refund inside try / catch: the demo returns whatever the refund did
ExpiryRefund ==
    /\ Current = "expiry.refund"
    /\ confirming
    /\ LET r == EVMService_refund(EvmState, evmNow, orch.lockId)
       IN /\ EvmApply(r)
          /\ orch' = [orch EXCEPT !.calls = Append(@, "evm.refund"),
                                  !.step = @ + 1, !.pc = "done"]
    /\ UNCHANGED <<evmNow, suiVars, suiNow, confirming>>

(***************************************************************************)
(* timelock-expiry-demo.ts: demonstrateTimelockExpiry run on its own, on a *)
(* ledger where any account, the service wallet's included, submits calls  *)
(* beside it.                                                              *)
(***************************************************************************)
demonstrateTimelockExpiry ==
    Start("TimelockExpiry", Amount("", FALSE, 0, 0), ExpiryAmount, EvmWallet, Undefined)

ExpiryDemoNext ==
    \/ demonstrateTimelockExpiry
    \/ ExpiryCreateLock
    \/ ExpirySleep
    \/ ExpiryRefund
    \/ EnvEvmCreateLock
    \/ EnvEvmRedeem
    \/ EnvEvmRefund
    \/ Tick

ExpiryDemoSpec == Init /\ [][ExpiryDemoNext]_vars

FullDemoInit ==
    /\ locks = [id \in DemoLockIds |-> EmptyLock]
    /\ ethBalance = [a \in EvmAccounts |-> IF a = HTLC THEN 0 ELSE InitialBalance]
    /\ evmEvents = [id \in DemoLockIds |-> <<>>]
    /\ evmPaid = [id \in DemoLockIds |-> <<>>]
    /\ evmNow = 0
    /\ objects = <<>>
    /\ suiCreated = <<>>
    /\ suiBalance = [a \in SuiAddrs |-> InitialBalance]
    /\ suiEvents = <<>>
    /\ suiPaid = <<>>
    /\ suiNow = 0
    /\ orch = Idle
    /\ confirming = TRUE

FullDemoNext ==
    \/ FullDemoEVMToSUI
    \/ FullDemoSUIToEVM
    \/ FullDemoTimelockExpiry
    \/ OrchEvmCreateLock
    \/ OrchSuiCreateLock
    \/ OrchSuiRedeem
    \/ OrchEvmRedeem
    \/ ExpiryCreateLock
    \/ ExpirySleep
    \/ ExpiryRefund
    \/ Tick

FullDemoSpec == FullDemoInit /\ [][FullDemoNext]_vars

(***************************************************************************)
(* The EVM contract on its own, with contract accounts among its callers.  *)
(* One lock more than MaxLocks may be created, so that a call back has a   *)
(* second lock to aim at.                                                  *)
(***************************************************************************)
ContractCallers == {EvmWallet, EvmRejecting, EvmReentering}
ContractParties == {<<EvmReentering, EvmReentering>>, <<EvmWallet, EvmReentering>>,
                    <<EvmReentering, EvmWallet>>, <<EvmWallet, EvmRejecting>>,
                    <<EvmRejecting, EvmWallet>>}
ContractValues == {1, 2}

EvmLocksCreated == Cardinality({id \in LockIds : locks[id] # EmptyLock})

ContractCreateLock ==
    /\ EvmLocksCreated <= MaxLocks
    /\ \E p \in ContractParties, lockId \in LockIds, value \in ContractValues,
          d \in Durations :
        EvmApply(createLock(EvmState, evmNow, p[1], value, lockId, p[2],
                            sha256(S1), d))
    /\ otherVars("evm")

ContractRedeem ==
    /\ \E sender \in ContractCallers, lockId \in LockIds, secret \in Bytes32,
          cb \in Callbacks :
        EvmApply(redeemByContract(EvmState, evmNow, sender, lockId, secret, cb))
    /\ otherVars("evm")

ContractRefund ==
    /\ \E sender \in ContractCallers, lockId \in LockIds, cb \in Callbacks :
        EvmApply(refundByContract(EvmState, evmNow, sender, lockId, cb))
    /\ otherVars("evm")

EvmNext ==
    \/ ContractCreateLock
    \/ ContractRedeem
    \/ ContractRefund
    \/ Tick

EvmSpec == Init /\ [][EvmNext]_vars

(***************************************************************************)
(* Observations used by the properties.                                    *)
(***************************************************************************)
EvmStatus(id) ==
    IF locks[id].depositor = ZeroAddress THEN "None"
    ELSE IF locks[id].claimed THEN "Claimed"
    ELSE IF locks[id].refunded THEN "Refunded"
    ELSE "Locked"

Count(evs, types) == Cardinality({i \in 1..Len(evs) : evs[i].type \in types})

EvmSuccesses(id) == Count(evmEvents[id], {"EVMClaimed", "EVMRefunded"})
SuiSuccesses(id) == Count(suiEvents[id], {"LockClaimedEvent", "LockRefundedEvent"})

\* a Sui lock is Locked while its object is shared; afterwards the event of
\* the call that consumed it tells how it ended
SuiStatus(id) ==
    IF id \notin DOMAIN suiCreated THEN "None"
    ELSE IF id \in DOMAIN objects THEN "Locked"
    ELSE IF Count(suiEvents[id], {"LockClaimedEvent"}) > 0 THEN "Claimed"
    ELSE "Refunded"

SuiRefundCallers(id) ==
    {suiCreated[id].refund_adr, suiCreated[id].initiator, suiCreated[id].target_adr}

RECURSIVE Sum(_, _)
Sum(f, S) == IF S = {} THEN 0
             ELSE LET x == CHOOSE y \in S : TRUE IN f[x] + Sum(f, S \ {x})

RECURSIVE SumSeq(_)
SumSeq(q) == IF q = <<>> THEN 0 ELSE Head(q).amount + SumSeq(Tail(q))

PaidTo(paid, a) ==
    Sum([id \in DOMAIN paid |->
            SumSeq(SelectSeq(paid[id], LAMBDA t : t.to = a))], DOMAIN paid)

(***************************************************************************)
(* C1  At most one claim or refund attempt on a lock ever succeeds: no     *)
(* lock is both claimed and refunded, claimed twice or refunded twice, on  *)
(* either ledger, whoever calls and whenever.                              *)
(***************************************************************************)
C1_AtMostOneSuccess ==
    /\ \A id \in LockIds :
        /\ EvmSuccesses(id) <= 1
        /\ Len(evmPaid[id]) <= 1
        /\ ~(locks[id].claimed /\ locks[id].refunded)
    /\ \A id \in DOMAIN suiCreated :
        /\ SuiSuccesses(id) <= 1
        /\ Len(suiPaid[id]) <= 1

\* a Sui lock that was redeemed, on which a further redeem and a refund fail
C1_Witness ==
    \E id \in DOMAIN suiCreated :
        /\ SuiStatus(id) = "Claimed"
        /\ suiNow > suiCreated[id].deadline
        /\ htlc_redeem(SuiState, suiNow, SuiWallet, id, S1).err # "ok"
        /\ htlc_refund(SuiState, suiNow, suiCreated[id].initiator, id).err # "ok"

(***************************************************************************)
(* C2  A swap is all-or-nothing: the two locks of an orchestrated swap     *)
(* never end one Claimed and the other Refunded.                           *)
(***************************************************************************)
SwapEvmCreated == \E i \in 1..Len(orch.calls) :
                    orch.calls[i] = "evm.createLock" /\ (i < Len(orch.calls) \/ orch.err = "none")
SwapSuiCreated == orch.suiLockId # 0
SwapEvmStatus == IF SwapEvmCreated THEN EvmStatus(FromHex(orch.lockId)) ELSE "None"
SwapSuiStatus == IF SwapSuiCreated THEN SuiStatus(orch.suiLockId) ELSE "None"

C2_AllOrNothing ==
    ~(\/ SwapEvmStatus = "Claimed" /\ SwapSuiStatus = "Refunded"
      \/ SwapEvmStatus = "Refunded" /\ SwapSuiStatus = "Claimed")

(***************************************************************************)
(* C3  A claim at now >= deadline, by an authorized caller with the right  *)
(* secret on a Locked lock, fails with the timelock-expired error on both  *)
(* ledgers, leaves the lock Locked, and the lock is then refundable.       *)
(***************************************************************************)
C3_LateClaimFails ==
    /\ \A id \in LockIds, secret \in Bytes32 :
        (/\ EvmStatus(id) = "Locked"
         /\ evmNow >= locks[id].timelock
         /\ sha256(secret) = locks[id].secretHash)
        => LET r == redeem(EvmState, evmNow, locks[id].recipient, id, secret)
           IN r.err = "Timelock expired" /\ r.st = EvmState
    /\ \A id \in DOMAIN objects, secret \in Secrets, sender \in SuiAddrs :
        (/\ suiNow >= objects[id].deadline
         /\ sha256(secret) = objects[id].hashed
         /\ secret.len = objects[id].secret_length)
        => LET r == htlc_redeem(SuiState, suiNow, sender, id, secret)
           IN r.err = "ETimelockExpired" /\ r.st = SuiState

(***************************************************************************)
(* C4  No lock is at once claimable (some claim with the right secret      *)
(* would succeed) and refundable (some refund would succeed).              *)
(***************************************************************************)
EvmClaimable(id) ==
    \E sender \in EvmAddrs, secret \in Bytes32 :
        redeem(EvmState, evmNow, sender, id, secret).err = "ok"
EvmRefundable(id) ==
    \E sender \in EvmAddrs : refund(EvmState, evmNow, sender, id).err = "ok"
SuiClaimable(id) ==
    \E sender \in SuiAddrs, secret \in Secrets :
        htlc_redeem(SuiState, suiNow, sender, id, secret).err = "ok"
SuiRefundable(id) ==
    \E sender \in SuiAddrs : htlc_refund(SuiState, suiNow, sender, id).err = "ok"

C4_WindowsDisjoint ==
    /\ \A id \in LockIds : ~(EvmClaimable(id) /\ EvmRefundable(id))
    /\ \A id \in DOMAIN objects : ~(SuiClaimable(id) /\ SuiRefundable(id))

(***************************************************************************)
(* C5  Hash binding.  On a Locked lock before its deadline, a claim by an  *)
(* authorized caller succeeds iff the secret's digest is the stored hash   *)
(* (and, on Sui, its length is secret_length); any other secret fails with *)
(* the invalid-secret error and changes nothing.                           *)
(*   As amended: on the EVM ledger the claim with the right secret         *)
(* succeeds iff the recipient also accepts the ether; when it does not,    *)
(* the claim fails with "Failed to send Ether" and changes nothing.        *)
(***************************************************************************)
EvmHashBinding(acceptsEther) ==
    \A id \in LockIds, secret \in Bytes32 :
        (EvmStatus(id) = "Locked" /\ evmNow < locks[id].timelock)
        => LET r == redeem(EvmState, evmNow, locks[id].recipient, id, secret)
               right == sha256(secret) = locks[id].secretHash
           IN /\ (r.err = "ok") <=> (right /\ acceptsEther[locks[id].recipient])
              /\ ~right => r.err = "Invalid secret" /\ r.st = EvmState
              /\ (right /\ ~acceptsEther[locks[id].recipient])
                    => r.err = "Failed to send Ether" /\ r.st = EvmState
              /\ r.err = "ok" =>
                    /\ r.st.locks[id] = [locks[id] EXCEPT !.claimed = TRUE]
                    /\ r.st.paid[id] = <<[to |-> locks[id].recipient,
                                         amount |-> locks[id].amount]>>

SuiHashBinding ==
    \A id \in DOMAIN objects, secret \in Secrets, sender \in SuiAddrs :
        suiNow < objects[id].deadline
        => LET r == htlc_redeem(SuiState, suiNow, sender, id, secret)
               right == /\ sha256(secret) = objects[id].hashed
                        /\ secret.len = objects[id].secret_length
           IN /\ (r.err = "ok") <=> right
              /\ ~right => /\ r.err \in {"ESecretLengthWrong", "ESecretPreimageWrong"}
                           /\ r.st = SuiState
              /\ r.err = "ok" =>
                    /\ id \notin DOMAIN r.st.objects
                    /\ r.st.paid[id] = <<[to |-> objects[id].target_adr,
                                         amount |-> objects[id].coin]>>

C5_HashBinding_AsClaimed ==
    EvmHashBinding([a \in EvmAddrs |-> TRUE]) /\ SuiHashBinding

C5_HashBinding ==
    EvmHashBinding([a \in EvmAddrs |-> a # EvmRejecting]) /\ SuiHashBinding

\* an EVM lock claimed before its deadline with the secret its hash binds
C5_Witness ==
    \E id \in LockIds :
        /\ EvmStatus(id) = "Claimed"
        /\ evmNow < locks[id].timelock
        /\ sha256(evmEvents[id][2].revealedSecret) = locks[id].secretHash

(***************************************************************************)
(* C6  Conservation.  A lock that reached a terminal status has paid its   *)
(* full amount exactly once, to the recipient when claimed and to the      *)
(* refund party when refunded; a Locked lock has paid nothing; the         *)
(* contract keeps exactly the amounts of the Locked locks, and every       *)
(* account holds its initial balance, less its deposits, plus the payouts. *)
(***************************************************************************)
EvmDeposited(a) ==
    Sum([id \in LockIds |-> IF locks[id].depositor = a THEN locks[id].amount ELSE 0],
        LockIds)
SuiDeposited(a) ==
    Sum([id \in DOMAIN suiCreated |->
            IF suiCreated[id].initiator = a THEN suiCreated[id].coin ELSE 0],
        DOMAIN suiCreated)

C6_Conservation ==
    /\ \A id \in LockIds :
        evmPaid[id] =
            CASE EvmStatus(id) = "Claimed" ->
                    <<[to |-> locks[id].recipient, amount |-> locks[id].amount]>>
              [] EvmStatus(id) = "Refunded" ->
                    <<[to |-> locks[id].depositor, amount |-> locks[id].amount]>>
              [] OTHER -> <<>>
    /\ ethBalance[HTLC] =
        Sum([id \in LockIds |-> IF EvmStatus(id) = "Locked" THEN locks[id].amount ELSE 0],
            LockIds)
    /\ \A a \in EvmAddrs :
        ethBalance[a] = InitialBalance - EvmDeposited(a) + PaidTo(evmPaid, a)
    /\ \A id \in DOMAIN suiCreated :
        suiPaid[id] =
            CASE SuiStatus(id) = "Claimed" ->
                    <<[to |-> suiCreated[id].target_adr, amount |-> suiCreated[id].coin]>>
              [] SuiStatus(id) = "Refunded" ->
                    <<[to |-> suiCreated[id].refund_adr, amount |-> suiCreated[id].coin]>>
              [] OTHER -> <<>>
    /\ \A id \in DOMAIN objects : objects[id] = suiCreated[id]
    /\ \A a \in SuiAddrs :
        suiBalance[a] = InitialBalance - SuiDeposited(a) + PaidTo(suiPaid, a)

\* an EVM lock refunded to a depositor other than its recipient
C6_Witness ==
    \E id \in LockIds :
        /\ EvmStatus(id) = "Refunded"
        /\ locks[id].depositor # locks[id].recipient
        /\ locks[id].amount > 0
        /\ ethBalance[locks[id].depositor] = InitialBalance

(***************************************************************************)
(* C7  Asymmetric-timelock soundness.  In an orchestrated swap, when the   *)
(* claim on side B (created second, short timelock) that reveals the       *)
(* secret is made before side B's deadline, side A's deadline (created     *)
(* first, long timelock) has not passed at that moment.                    *)
(***************************************************************************)
Revealing == orch.revealedAt # NoClocks
EvmDeadline == locks[FromHex(orch.lockId)].timelock
SuiDeadline == suiCreated[orch.suiLockId].deadline

C7_AsymmetricTimelock ==
    Revealing =>
        IF orch.dir = "EVMToSUI"
        THEN orch.revealedAt.sui < SuiDeadline => EvmDeadline - orch.revealedAt.evm > 0
        ELSE orch.revealedAt.evm < EvmDeadline => SuiDeadline - orch.revealedAt.sui > 0

(***************************************************************************)
(* C8  Exclusivity.  Once a lock is no longer Locked, every later claim    *)
(* and refund call, by any caller with any arguments at any time, fails    *)
(* with the already-terminal error, and the status never returns to        *)
(* Locked.                                                                 *)
(*   As amended: every such call fails and changes nothing; on the EVM     *)
(* ledger it fails with "Already claimed" / "Already refunded" when the    *)
(* caller is the lock's recipient (claim) or depositor (refund), and with  *)
(* "Not the recipient" / "Not the depositor" for every other caller; on    *)
(* Sui it fails because the lock object no longer exists.                  *)
(***************************************************************************)
AlreadyTerminal(id) ==
    IF locks[id].claimed THEN "Already claimed" ELSE "Already refunded"

EvmExclusive(errorFor(_, _, _)) ==
    \A id \in LockIds :
        /\ EvmSuccesses(id) > 0 => EvmStatus(id) \in {"Claimed", "Refunded"}
        /\ EvmStatus(id) \in {"Claimed", "Refunded"} =>
            /\ \A sender \in EvmAddrs, secret \in Bytes32 :
                LET r == redeem(EvmState, evmNow, sender, id, secret)
                IN r.err = errorFor(id, sender, "redeem") /\ r.st = EvmState
            /\ \A sender \in EvmAddrs :
                LET r == refund(EvmState, evmNow, sender, id)
                IN r.err = errorFor(id, sender, "refund") /\ r.st = EvmState

SuiExclusive ==
    \A id \in DOMAIN suiCreated :
        /\ SuiSuccesses(id) > 0 => id \notin DOMAIN objects
        /\ id \notin DOMAIN objects =>
            /\ \A sender \in SuiAddrs, secret \in Secrets :
                LET r == htlc_redeem(SuiState, suiNow, sender, id, secret)
                IN r.err # "ok" /\ r.st = SuiState
            /\ \A sender \in SuiAddrs :
                LET r == htlc_refund(SuiState, suiNow, sender, id)
                IN r.err # "ok" /\ r.st = SuiState

ErrorAsClaimed(id, sender, call) == AlreadyTerminal(id)

ErrorByCaller(id, sender, call) ==
    IF call = "redeem"
    THEN IF sender = locks[id].recipient THEN AlreadyTerminal(id) ELSE "Not the recipient"
    ELSE IF sender = locks[id].depositor THEN AlreadyTerminal(id) ELSE "Not the depositor"

C8_Exclusivity_AsClaimed == EvmExclusive(ErrorAsClaimed) /\ SuiExclusive

C8_Exclusivity == EvmExclusive(ErrorByCaller) /\ SuiExclusive

\* a claimed EVM lock whose deadline has since passed, so that a refund by
\* the depositor is stopped by nothing but the claimed flag
C8_Witness ==
    \E id \in LockIds :
        /\ EvmStatus(id) = "Claimed"
        /\ evmNow >= locks[id].timelock
        /\ locks[id].depositor # locks[id].recipient

(***************************************************************************)
(* C9  Refund gating.  For a Locked lock and an authorized caller, refund  *)
(* succeeds iff now >= deadline on both ledgers: before the deadline it    *)
(* fails with the timelock-not-expired error and the lock stays Locked;    *)
(* from now = deadline on it succeeds and returns the funds.               *)
(*   As amended: on the EVM ledger refund succeeds iff now >= timelock     *)
(* and the depositor accepts the ether (otherwise "Failed to send Ether",  *)
(* nothing changed); on Sui refund succeeds iff now > deadline, and at     *)
(* now = deadline exactly it still fails with ERefundEarly.                *)
(***************************************************************************)
EvmRefundGating(acceptsEther) ==
    \A id \in LockIds :
        EvmStatus(id) = "Locked"
        => LET r == refund(EvmState, evmNow, locks[id].depositor, id)
               due == evmNow >= locks[id].timelock
           IN /\ (r.err = "ok") <=> (due /\ acceptsEther[locks[id].depositor])
              /\ ~due => r.err = "Timelock not expired" /\ r.st = EvmState
              /\ (due /\ ~acceptsEther[locks[id].depositor])
                    => r.err = "Failed to send Ether" /\ r.st = EvmState
              /\ r.err = "ok" =>
                    /\ r.st.locks[id] = [locks[id] EXCEPT !.refunded = TRUE]
                    /\ r.st.paid[id] = <<[to |-> locks[id].depositor,
                                         amount |-> locks[id].amount]>>

SuiRefundGating(due(_, _)) ==
    \A id \in DOMAIN objects, sender \in SuiAddrs :
        sender \in SuiRefundCallers(id)
        => LET r == htlc_refund(SuiState, suiNow, sender, id)
           IN /\ (r.err = "ok") <=> due(suiNow, objects[id].deadline)
              /\ ~due(suiNow, objects[id].deadline)
                    => r.err = "ERefundEarly" /\ r.st = SuiState
              /\ r.err = "ok" =>
                    /\ id \notin DOMAIN r.st.objects
                    /\ r.st.paid[id] = <<[to |-> objects[id].refund_adr,
                                         amount |-> objects[id].coin]>>

AtOrAfter(t, deadline) == t >= deadline
After(t, deadline) == t > deadline

C9_RefundGating_AsClaimed ==
    EvmRefundGating([a \in EvmAddrs |-> TRUE]) /\ SuiRefundGating(AtOrAfter)

C9_RefundGating ==
    EvmRefundGating([a \in EvmAddrs |-> a # EvmRejecting]) /\ SuiRefundGating(After)

\* a Sui lock still Locked at now = deadline exactly, where refund is refused
C9_Witness ==
    \E id \in DOMAIN objects :
        /\ suiNow = objects[id].deadline
        /\ htlc_refund(SuiState, suiNow, objects[id].initiator, id).err = "ERefundEarly"

(***************************************************************************)
(* C10  Refund fallback.  When a step of an orchestrated swap fails, the   *)
(* orchestrator refunds every side still Locked, so an aborted run leaves  *)
(* no lock it created Locked.                                              *)
(***************************************************************************)
C10_RefundFallback ==
    orch.pc = "failed" =>
        /\ SwapEvmStatus # "Locked"
        /\ SwapSuiStatus # "Locked"

(***************************************************************************)
(* C11  Orchestration order.  In both directions the orchestrator issues   *)
(* its ledger calls one at a time in the order: create lock A (initiator   *)
(* side), create lock B (responder side), claim B with the secret, claim A *)
(* with the secret.  A call is issued only when the one before it has      *)
(* taken effect on its ledger, so no secret reaches a ledger before both   *)
(* locks exist.                                                            *)
(***************************************************************************)
IsPrefix(p, q) == Len(p) <= Len(q) /\ \A i \in 1..Len(p) : p[i] = q[i]

EvmLockOnLedger == locks[FromHex(orch.lockId)].depositor # ZeroAddress
SuiLockOnLedger == orch.suiLockId \in DOMAIN suiCreated

C11_OrchestrationOrder ==
    /\ orch.dir = "EVMToSUI" =>
        /\ IsPrefix(orch.calls,
                    <<"evm.createLock", "sui.createLock", "sui.redeem", "evm.redeem">>)
        /\ Len(orch.calls) >= 2 => EvmLockOnLedger
        /\ Len(orch.calls) >= 3 => EvmLockOnLedger /\ SuiLockOnLedger
        /\ Len(orch.calls) >= 4 => SuiStatus(orch.suiLockId) = "Claimed"
    /\ orch.dir = "SUIToEVM" =>
        /\ IsPrefix(orch.calls,
                    <<"sui.createLock", "evm.createLock", "evm.redeem", "sui.redeem">>)
        /\ Len(orch.calls) >= 2 => SuiLockOnLedger
        /\ Len(orch.calls) >= 3 => SuiLockOnLedger /\ EvmLockOnLedger
        /\ Len(orch.calls) >= 4 => EvmStatus(FromHex(orch.lockId)) = "Claimed"
    /\ Revealed # {} =>
        /\ Revealed = {orch.secret}
        /\ EvmLockOnLedger /\ SuiLockOnLedger

\* a SUI-to-EVM run that made all four calls, the last one accepted
C11_Witness ==
    /\ orch.dir = "SUIToEVM"
    /\ orch.pc = "done"
    /\ Len(orch.calls) = 4
    /\ SuiStatus(orch.suiLockId) = "Claimed"

(***************************************************************************)
(* C12  Bounded waits.  Every confirmation wait of the orchestrator and    *)
(* its adapters is bounded, so a swap run always terminates: a run that    *)
(* has started eventually completes or fails, also when a ledger never     *)
(* confirms a submitted transaction.                                       *)
(***************************************************************************)
C12_BoundedWaits == Running ~> (orch.pc \in {"done", "failed"})

(***************************************************************************)
(* C13  Happy path.  In both directions, a run whose four ledger calls     *)
(* were all accepted completes with both locks Claimed, neither Refunded,  *)
(* and each locked amount delivered to the address configured for the      *)
(* opposite party: the ether to the ETH destination, the SUI to the SUI    *)
(* destination.                                                            *)
(***************************************************************************)
AllAccepted == Len(orch.calls) = 4 /\ orch.err = "none"

C13_HappyPath ==
    /\ AllAccepted <=> orch.pc = "done"
    /\ orch.pc = "done" =>
        LET id == FromHex(orch.lockId)
            sid == orch.suiLockId
        IN /\ EvmStatus(id) = "Claimed" /\ ~locks[id].refunded
           /\ SuiStatus(sid) = "Claimed"
           /\ Count(evmEvents[id], {"EVMRefunded"}) = 0
           /\ Count(suiEvents[sid], {"LockRefundedEvent"}) = 0
           /\ evmPaid[id] = <<[to |-> orch.ethDestination,
                               amount |-> parseEther(orch.ethAmount)]>>
           /\ suiPaid[sid] = <<[to |-> orch.suiDestination,
                                amount |-> parseInt(orch.suiAmount)]>>

\* a completed EVM-to-SUI run whose SUI went to a destination other than
\* the relayer's own wallet
C13_Witness ==
    /\ orch.pc = "done"
    /\ orch.dir = "EVMToSUI"
    /\ orch.suiDestination = SuiOther
    /\ suiBalance[SuiOther] = InitialBalance + parseInt(MistAmount)
    /\ evmNow < locks[FromHex(orch.lockId)].timelock

(***************************************************************************)
(* C14  Timelock policy.  In both directions the two locks of a swap carry *)
(* the same secretHash; the lock created first gets the long duration      *)
(* (48h) and the lock created second the short one (24h), each in its      *)
(* ledger's unit (EVM seconds, Sui milliseconds), and long > short when    *)
(* both are expressed in milliseconds.                                     *)
(***************************************************************************)
BothLocked == Len(orch.createdAt) = 2
EvmDuration ==
    locks[FromHex(orch.lockId)].timelock
        - orch.createdAt[IF orch.dir = "EVMToSUI" THEN 1 ELSE 2].evm
SuiDuration ==
    suiCreated[orch.suiLockId].deadline - suiCreated[orch.suiLockId].created_at

C14_TimelockPolicy ==
    BothLocked =>
        /\ locks[FromHex(orch.lockId)].secretHash = suiCreated[orch.suiLockId].hashed
        /\ suiCreated[orch.suiLockId].hashed = sha256(orch.secret)
        /\ suiCreated[orch.suiLockId].created_at
                = orch.createdAt[IF orch.dir = "EVMToSUI" THEN 2 ELSE 1].sui
        /\ IF orch.dir = "EVMToSUI"
           THEN /\ EvmDuration = 48 * 60 * 60
                /\ SuiDuration = 24 * 60 * 60 * 1000
                /\ EvmDuration * 1000 > SuiDuration
           ELSE /\ SuiDuration = 48 * 60 * 60 * 1000
                /\ EvmDuration = 24 * 60 * 60
                /\ SuiDuration > EvmDuration * 1000

\* a SUI-to-EVM swap with both locks in place, the second created a day
\* after the first
C14_Witness ==
    /\ BothLocked
    /\ orch.dir = "SUIToEVM"
    /\ orch.createdAt[2].evm > orch.createdAt[1].evm

(***************************************************************************)
(* C15  On every ledger a create with amount <= 0 fails and creates no     *)
(* lock: no reachable state holds a lock, on either ledger, whose locked   *)
(* amount is zero.                                                         *)
(***************************************************************************)
C15_NoZeroAmountLock ==
    /\ \A id \in LockIds : locks[id].depositor # ZeroAddress => locks[id].amount > 0
    /\ \A id \in DOMAIN suiCreated : suiCreated[id].coin > 0

(***************************************************************************)
(* C16  Duplicate lock id.  On the EVM ledger a createLock that reuses the *)
(* id of an existing, still-Locked lock, by any caller with any arguments  *)
(* and any value, fails with the duplicate-lock error and leaves the       *)
(* existing lock and the contract's balance unchanged.                     *)
(*   As amended: such a call always fails and changes nothing; it fails    *)
(* with "LockId already exists" when it carries a value > 0, and with      *)
(* "Amount must be greater than 0" when it carries no value, because the   *)
(* amount is checked first.                                                *)
(***************************************************************************)
AnyHashes == {sha256(S2), ZeroHash}
AnyDurations == {0, MAKER}

DuplicateRejected(errorFor(_)) ==
    \A id \in LockIds :
        EvmStatus(id) = "Locked" =>
            \A sender \in EvmAddrs, target \in EvmAddrs,
               hash \in AnyHashes, d \in AnyDurations :
              \A value \in 0..ethBalance[sender] :
                \A r \in {createLock(EvmState, evmNow, sender, value, id, target, hash, d)} :
                   /\ r.err = errorFor(value)
                   /\ r.st.locks[id] = locks[id]
                   /\ r.st.bal[HTLC] = ethBalance[HTLC]
                   /\ r.st = EvmState

DuplicateError(value) == "LockId already exists"
AmountThenDuplicateError(value) ==
    IF value > 0 THEN "LockId already exists" ELSE "Amount must be greater than 0"

C16_DuplicateLockId_AsClaimed == DuplicateRejected(DuplicateError)

C16_DuplicateLockId == DuplicateRejected(AmountThenDuplicateError)

\* a Locked lock whose id another account, with funds, tries to reuse
C16_Witness ==
    \E id \in LockIds :
        /\ EvmStatus(id) = "Locked"
        /\ locks[id].depositor = EvmWallet
        /\ ethBalance[EvmOther] >= 1
        /\ createLock(EvmState, evmNow, EvmOther, 1, id, EvmOther, sha256(S2), MAKER).err
                = "LockId already exists"

(***************************************************************************)
(* C17  A successful EVM createLock(lockId, target, hash, duration) with   *)
(* value v at time t stores depositor = caller, recipient = target,        *)
(* amount = v, secretHash = hash, timelock = t + duration, claimed = false *)
(* and refunded = false, and moves exactly v from the caller to the        *)
(* contract; nothing else changes, and the stored deadline stays what the  *)
(* creation fixed.                                                         *)
(***************************************************************************)
CreateCalls ==
    {[sender |-> EvmWallet, target |-> EvmOther, hash |-> sha256(S2), duration |-> MAKER],
     [sender |-> EvmOther, target |-> EvmRejecting, hash |-> ZeroHash, duration |-> 0],
     [sender |-> EvmRejecting, target |-> EvmRejecting, hash |-> sha256(S1), duration |-> TAKER]}

C17_CreateLockPostcondition ==
    /\ \A id \in LockIds, c \in CreateCalls :
        \A v \in {0, 1, ethBalance[c.sender]} :
            LET sender == c.sender
                target == c.target
                hash == c.hash
                d == c.duration
                r == createLock(EvmState, evmNow, sender, v, id, target, hash, d)
            IN r.err = "ok" =>
                /\ v > 0
                /\ r.st.locks[id] =
                    [depositor |-> sender, recipient |-> target, amount |-> v,
                     secretHash |-> hash, timelock |-> evmNow + d,
                     claimed |-> FALSE, refunded |-> FALSE]
                /\ \A other \in LockIds \ {id} : r.st.locks[other] = locks[other]
                /\ r.st.bal[sender] = ethBalance[sender] - v
                /\ r.st.bal[HTLC] = ethBalance[HTLC] + v
                /\ \A a \in EvmAddrs \ {sender} : r.st.bal[a] = ethBalance[a]
                /\ r.st.paid = evmPaid
    /\ \A id \in LockIds :
        locks[id].depositor # ZeroAddress =>
            LET e == evmEvents[id][1]
            IN /\ e.type = "EVMDepositLocked"
               /\ locks[id].depositor = e.depositor
               /\ locks[id].recipient = e.targetAddress
               /\ locks[id].amount = e.amount
               /\ locks[id].secretHash = e.hashedSecret
               /\ locks[id].timelock = e.timelock

\* a lock created after the clock has moved, still as created, while the
\* other id is free for a further create
C17_Witness ==
    \E id \in LockIds :
        /\ EvmStatus(id) = "Locked"
        /\ evmNow > 0
        /\ locks[id].timelock = evmNow + TAKER
        /\ ethBalance[HTLC] = locks[id].amount
        /\ ethBalance[locks[id].depositor] = InitialBalance - locks[id].amount

(***************************************************************************)
(* C18  Claim authorization and routing.  On the EVM ledger a claim by any *)
(* caller other than the lock's recipient fails with "Not the recipient".  *)
(* On Sui any caller who supplies the correct secret (right digest and     *)
(* right length) can claim.  On both ledgers a successful claim delivers   *)
(* the locked amount to the lock's fixed recipient (EVM recipient, Sui     *)
(* target_adr) and to nobody else, whoever the caller is.                  *)
(***************************************************************************)
C18_ClaimAuthorization ==
    /\ \A id \in LockIds, sender \in EvmAddrs, secret \in Bytes32 :
        \A r \in {redeem(EvmState, evmNow, sender, id, secret)} :
            /\ sender # locks[id].recipient =>
                    r.err = "Not the recipient" /\ r.st = EvmState
            /\ r.err = "ok" =>
                /\ sender = locks[id].recipient
                /\ r.st.paid[id] = <<[to |-> locks[id].recipient,
                                     amount |-> locks[id].amount]>>
                /\ \A a \in EvmAddrs :
                    r.st.bal[a] = ethBalance[a]
                        + (IF a = locks[id].recipient THEN locks[id].amount ELSE 0)
    /\ \A id \in DOMAIN objects, sender \in SuiAddrs, secret \in Secrets :
        \A r \in {htlc_redeem(SuiState, suiNow, sender, id, secret)} :
            /\ (/\ sha256(secret) = objects[id].hashed
                /\ secret.len = objects[id].secret_length
                /\ suiNow < objects[id].deadline) => r.err = "ok"
            /\ r.err = "ok" =>
                /\ r.st.paid[id] = <<[to |-> objects[id].target_adr,
                                     amount |-> objects[id].coin]>>
                /\ \A a \in SuiAddrs :
                    r.st.bal[a] = suiBalance[a]
                        + (IF a = objects[id].target_adr THEN objects[id].coin ELSE 0)

\* a Sui lock claimed by an account that is none of its parties: the coin
\* went to the target address, not to the claimer
C18_Witness ==
    \E id \in DOMAIN suiCreated :
        /\ SuiStatus(id) = "Claimed"
        /\ suiCreated[id].coin > 0
        /\ suiEvents[id][2].claimer = SuiStranger
        /\ suiCreated[id].target_adr = SuiOther
        /\ suiBalance[SuiOther] = InitialBalance + suiCreated[id].coin
        /\ suiBalance[SuiStranger] = InitialBalance

(***************************************************************************)
(* C19  Refund authorization and routing.  On the EVM ledger a refund by   *)
(* any caller other than the depositor fails with "Not the depositor"; on  *)
(* Sui a refund by any caller other than the initiator, the target or the  *)
(* refund address fails (ERefund3rdParty).  On both ledgers a successful   *)
(* refund delivers the locked amount to the refund party (EVM: depositor;  *)
(* Sui: refund_adr) and to nobody else, whichever authorized caller        *)
(* submitted it.                                                           *)
(***************************************************************************)
C19_RefundAuthorization ==
    /\ \A id \in LockIds, sender \in EvmAddrs :
        \A r \in {refund(EvmState, evmNow, sender, id)} :
            /\ sender # locks[id].depositor =>
                    r.err = "Not the depositor" /\ r.st = EvmState
            /\ r.err = "ok" =>
                /\ sender = locks[id].depositor
                /\ r.st.paid[id] = <<[to |-> locks[id].depositor,
                                     amount |-> locks[id].amount]>>
                /\ \A a \in EvmAddrs :
                    r.st.bal[a] = ethBalance[a]
                        + (IF a = locks[id].depositor THEN locks[id].amount ELSE 0)
    /\ \A id \in DOMAIN objects, sender \in SuiAddrs :
        \A r \in {htlc_refund(SuiState, suiNow, sender, id)} :
            /\ sender \notin {objects[id].initiator, objects[id].target_adr,
                              objects[id].refund_adr} =>
                    r.err = "ERefund3rdParty" /\ r.st = SuiState
            /\ r.err = "ok" =>
                /\ r.st.paid[id] = <<[to |-> objects[id].refund_adr,
                                     amount |-> objects[id].coin]>>
                /\ \A a \in SuiAddrs :
                    r.st.bal[a] = suiBalance[a]
                        + (IF a = objects[id].refund_adr THEN objects[id].coin ELSE 0)

\* a Sui lock refunded on the target's request: the coin went to the refund
\* address, which is neither the signer nor the initiator
C19_Witness ==
    \E id \in DOMAIN suiCreated :
        /\ SuiStatus(id) = "Refunded"
        /\ suiCreated[id].coin > 0
        /\ suiEvents[id][2].signer_ = suiCreated[id].target_adr
        /\ suiCreated[id].refund_adr = SuiThird
        /\ suiCreated[id].target_adr = SuiOther
        /\ suiBalance[SuiThird] = InitialBalance + suiCreated[id].coin
        /\ suiBalance[SuiOther] = InitialBalance

(***************************************************************************)
(* C20  A failed claim or refund changes nothing: status, fields and       *)
(* balances are as before the call.  So after failed attempts a claim with *)
(* the correct secret by a legitimate caller before the deadline still     *)
(* succeeds, and a refund by an authorized caller after the deadline still *)
(* succeeds.                                                               *)
(*   As amended: the same, where on the EVM ledger the later claim or      *)
(* refund succeeds provided the account it pays (the recipient, the        *)
(* depositor) accepts the ether; when it does not, that call fails too     *)
(* and changes nothing.                                                    *)
(***************************************************************************)
EvmFailedAttempts ==
    {r.st : r \in {x \in {redeem(EvmState, evmNow, sender, id, secret) :
                              sender \in EvmAddrs, id \in LockIds, secret \in Bytes32}
                         \cup {refund(EvmState, evmNow, sender, id) :
                              sender \in EvmAddrs, id \in LockIds} :
                    x.err # "ok"}}

SuiFailedAttempts ==
    {r.st : r \in {x \in {htlc_redeem(SuiState, suiNow, sender, id, secret) :
                              sender \in SuiAddrs, id \in DOMAIN suiCreated,
                              secret \in Secrets}
                         \cup {htlc_refund(SuiState, suiNow, sender, id) :
                              sender \in SuiAddrs, id \in DOMAIN suiCreated} :
                    x.err # "ok"}}

FailureChangesNothing(acceptsEther) ==
    /\ EvmFailedAttempts \subseteq {EvmState}
    /\ SuiFailedAttempts \subseteq {SuiState}
    /\ \A after \in EvmFailedAttempts, id \in LockIds, secret \in Bytes32 :
        (/\ EvmStatus(id) = "Locked"
         /\ sha256(secret) = locks[id].secretHash
         /\ evmNow < locks[id].timelock
         /\ acceptsEther[locks[id].recipient])
        => redeem(after, evmNow, locks[id].recipient, id, secret).err = "ok"
    /\ \A after \in EvmFailedAttempts, id \in LockIds :
        (/\ EvmStatus(id) = "Locked"
         /\ evmNow > locks[id].timelock
         /\ acceptsEther[locks[id].depositor])
        => refund(after, evmNow, locks[id].depositor, id).err = "ok"
    /\ \A after \in SuiFailedAttempts, id \in DOMAIN objects,
          secret \in Secrets, sender \in SuiAddrs :
        (/\ sha256(secret) = objects[id].hashed
         /\ secret.len = objects[id].secret_length
         /\ suiNow < objects[id].deadline)
        => htlc_redeem(after, suiNow, sender, id, secret).err = "ok"
    /\ \A after \in SuiFailedAttempts, id \in DOMAIN objects :
        suiNow > objects[id].deadline
        => \A sender \in SuiRefundCallers(id) :
                htlc_refund(after, suiNow, sender, id).err = "ok"

C20_FailureChangesNothing_AsClaimed ==
    FailureChangesNothing([a \in EvmAddrs \cup {ZeroAddress} |-> TRUE])

C20_FailureChangesNothing ==
    FailureChangesNothing([a \in EvmAddrs \cup {ZeroAddress} |-> a # EvmRejecting])

\* a Locked lock, before its deadline, on which a claim with a wrong secret
\* by the recipient fails and the claim with the right one then succeeds
C20_Witness ==
    \E id \in LockIds :
        /\ EvmStatus(id) = "Locked"
        /\ evmNow < locks[id].timelock
        /\ locks[id].recipient = EvmOther
        /\ redeem(EvmState, evmNow, EvmOther, id, S2).err = "Invalid secret"
        /\ redeem(redeem(EvmState, evmNow, EvmOther, id, S2).st,
                  evmNow, EvmOther, id, S1).err = "ok"

(***************************************************************************)
(* C21  Cross-ledger hash compatibility.  The EVM contract, the Sui module *)
(* and the orchestrator's hashSecret use the same hash function, SHA-256   *)
(* over the raw secret bytes: for the two locks of an orchestrated swap    *)
(* and a 32-byte secret, the secret passes the hash check of claim on one  *)
(* ledger iff it passes it on the other, and the orchestrator's own secret *)
(* passes both.                                                            *)
(***************************************************************************)
BothClaimable ==
    /\ BothLocked
    /\ EvmStatus(FromHex(orch.lockId)) = "Locked"
    /\ evmNow < EvmDeadline
    /\ orch.suiLockId \in DOMAIN objects

PassesEvmHashCheck(secret) ==
    redeem(EvmState, evmNow, locks[FromHex(orch.lockId)].recipient,
           FromHex(orch.lockId), secret).err # "Invalid secret"

PassesSuiHashCheck(secret) ==
    htlc_redeem(SuiState, suiNow, SuiStranger, orch.suiLockId, secret).err
        \notin {"ESecretLengthWrong", "ESecretPreimageWrong"}

ClaimOfNewLock(hash(_)) ==
    \A lockId \in LockIds, secret \in Bytes32, recipient \in {EvmWallet, EvmOther} :
        \A c \in {createLock(EvmState, evmNow, EvmWallet, 2, lockId, recipient,
                             hash(secret), TAKER)} :
            c.err = "ok" =>
                \A r \in {redeem(c.st, evmNow, recipient, lockId, secret)} :
                    /\ r.err = "ok"
                    /\ r.st.locks[lockId].claimed
                    /\ r.st.bal[recipient] = c.st.bal[recipient] + 2
                    /\ r.st.bal[HTLC] = c.st.bal[HTLC] - 2

\* the recipient's redeem of a lock already on the ledger
ClaimOfStoredLock(hash(_)) ==
    \A lockId \in LockIds, secret \in Bytes32 :
        (/\ EvmStatus(lockId) = "Locked"
         /\ locks[lockId].secretHash = hash(secret)
         /\ locks[lockId].recipient # EvmRejecting
         /\ evmNow < locks[lockId].timelock) =>
            \A r \in {redeem(EvmState, evmNow, locks[lockId].recipient, lockId, secret)} :
                /\ r.err = "ok"
                /\ r.st.locks[lockId].claimed
                /\ r.st.bal[locks[lockId].recipient]
                       = ethBalance[locks[lockId].recipient] + locks[lockId].amount

Hashes == {hashSecret(s) : s \in Secrets} \cup {ZeroHash}

C23_LockIdDerivation ==
    /\ \A h1, h2 \in Hashes : generateLockId(h1) = generateLockId(h2) <=> h1 = h2
    /\ orch.pc # "idle" => orch.lockId = generateLockId(hashSecret(orch.secret))
    /\ SwapEvmCreated => EvmLockOnLedger
    /\ \A id \in LockIds :
        locks[id] # EmptyLock =>
            /\ SwapEvmCreated
            /\ ToHex(id) = generateLockId(hashSecret(orch.secret))
            /\ locks[id].secretHash = hashSecret(orch.secret)

C23_Witness ==
    /\ SwapEvmCreated
    /\ orch.secret = S2
    /\ orch.dir = "EVMToSUI"
    /\ locks[hashSecret(S2)].depositor = EvmWallet
    /\ locks[hashSecret(S1)] = EmptyLock

(***************************************************************************)
(* C24  Secret disclosure.  On each ledger a secret is published, carried  *)
(* in the claimed event, exactly when a claim succeeds: a successful claim *)
(* appends one claimed event holding the secret it was given, and a failed *)
(* claim, a create and a refund, failed or not, publish no secret.         *)
(***************************************************************************)
\* the secrets the claimed events of a ledger carry, with their locks
EvmSecrets(events) ==
    UNION {{<<id, events[id][i].revealedSecret>> :
                i \in {j \in 1..Len(events[id]) : events[id][j].type = "EVMClaimed"}} :
           id \in DOMAIN events}
SuiSecrets(events) ==
    UNION {{<<id, events[id][i].secret>> :
                i \in {j \in 1..Len(events[id]) : events[id][j].type = "LockClaimedEvent"}} :
           id \in DOMAIN events}

C24_SecretDisclosure ==
    /\ \A sender \in EvmAddrs, id \in LockIds, secret \in Bytes32 :
        \A r \in {redeem(EvmState, evmNow, sender, id, secret)} :
            IF r.err = "ok"
            THEN r.st.events = [evmEvents EXCEPT ![id] = Append(@,
                    [type |-> "EVMClaimed", lockId |-> id, revealedSecret |-> secret])]
            ELSE r.st.events = evmEvents
    /\ \A sender \in EvmAddrs, id \in LockIds :
        EvmSecrets(refund(EvmState, evmNow, sender, id).st.events) = EvmSecrets(evmEvents)
    /\ \A id \in LockIds, c \in CreateCalls, v \in {0, 2} :
        EvmSecrets(createLock(EvmState, evmNow, c.sender, v, id, c.target, c.hash,
                              c.duration).st.events) = EvmSecrets(evmEvents)
    /\ \A sender \in SuiAddrs, id \in DOMAIN suiCreated, secret \in Secrets :
        \A r \in {htlc_redeem(SuiState, suiNow, sender, id, secret)} :
            IF r.err = "ok"
            THEN r.st.events = [suiEvents EXCEPT ![id] = Append(@,
                    [type |-> "LockClaimedEvent", lock |-> id, secret |-> secret,
                     claimer |-> sender])]
            ELSE r.st.events = suiEvents
    /\ \A sender \in SuiAddrs, id \in DOMAIN suiCreated :
        SuiSecrets(htlc_refund(SuiState, suiNow, sender, id).st.events)
            = SuiSecrets(suiEvents)
    /\ \A v \in {0, 2}, h \in SuiHashes :
        SuiSecrets(htlc_createLock(SuiState, suiNow, SuiWallet, TAKER * MsPerSecond,
                                   h[1], SuiOther, SuiThird, v, h[2]).st.events)
            = SuiSecrets(suiEvents)
    /\ \A id \in LockIds :
        Count(evmEvents[id], {"EVMClaimed"}) = IF EvmStatus(id) = "Claimed" THEN 1 ELSE 0
    /\ \A id \in DOMAIN suiCreated :
        Count(suiEvents[id], {"LockClaimedEvent"})
            = IF SuiStatus(id) = "Claimed" THEN 1 ELSE 0

\* a claimed Sui lock whose one claimed event carries the secret, on which a
\* further claim fails
C24_Witness ==
    \E id \in DOMAIN suiCreated :
        /\ SuiStatus(id) = "Claimed"
        /\ SuiSecrets(suiEvents) = {<<id, S1>>}
        /\ suiEvents[id][2].claimer = SuiWallet
        /\ Len(suiEvents[id]) = 2
        /\ htlc_redeem(SuiState, suiNow, SuiWallet, id, S1).err = "ObjectNotFound"

(***************************************************************************)
(* C25  Immutability.  Once a lock is created no call, accepted or         *)
(* rejected (a create under the same or another id, a claim, a refund),    *)
(* changes its depositor, recipient, refund party, amount, secretHash or   *)
(* deadline; only its status changes, and only from Locked to Claimed or   *)
(* from Locked to Refunded.                                                *)
(***************************************************************************)
LockStatus(lock_) ==
    IF lock_.depositor = ZeroAddress THEN "None"
    ELSE IF lock_.claimed THEN "Claimed"
    ELSE IF lock_.refunded THEN "Refunded"
    ELSE "Locked"

LockTerms(lock_) ==
    [depositor |-> lock_.depositor, recipient |-> lock_.recipient,
     amount |-> lock_.amount, secretHash |-> lock_.secretHash,
     timelock |-> lock_.timelock]

StatusStep(from, to) ==
    \/ to = from
    \/ from = "Locked" /\ to \in {"Claimed", "Refunded"}

\* what a call may do to the locks that exist when it is submitted
EvmLocksKept(after) ==
    \A id \in LockIds :
        locks[id].depositor # ZeroAddress =>
            /\ LockTerms(after.locks[id]) = LockTerms(locks[id])
            /\ StatusStep(LockStatus(locks[id]), LockStatus(after.locks[id]))
            /\ ~(after.locks[id].claimed /\ after.locks[id].refunded)

\* a Sui lock keeps its fields while its object exists, and the object,
\* once consumed, does not come back
SuiLocksKept(after) ==
    /\ \A id \in DOMAIN suiCreated :
        /\ id \in DOMAIN after.created /\ after.created[id] = suiCreated[id]
        /\ id \in DOMAIN after.objects =>
            id \in DOMAIN objects /\ after.objects[id] = objects[id]

C25_Immutability ==
    /\ \A sender \in EvmAddrs, id \in LockIds, secret \in Bytes32 :
        EvmLocksKept(redeem(EvmState, evmNow, sender, id, secret).st)
    /\ \A sender \in EvmAddrs, id \in LockIds :
        EvmLocksKept(refund(EvmState, evmNow, sender, id).st)
    /\ \A id \in LockIds, c \in CreateCalls, v \in {0, 1} :
        EvmLocksKept(createLock(EvmState, evmNow, c.sender, v, id, c.target, c.hash,
                                c.duration).st)
    /\ \A sender \in SuiAddrs, id \in DOMAIN suiCreated, secret \in Secrets :
        SuiLocksKept(htlc_redeem(SuiState, suiNow, sender, id, secret).st)
    /\ \A sender \in SuiAddrs, id \in DOMAIN suiCreated :
        SuiLocksKept(htlc_refund(SuiState, suiNow, sender, id).st)
    /\ \A v \in {0, 1}, h \in SuiHashes :
        SuiLocksKept(htlc_createLock(SuiState, suiNow, SuiOther, MAKER * MsPerSecond,
                                     h[1], SuiThird, SuiWallet, v, h[2]).st)
    /\ \A id \in LockIds :
        locks[id].depositor # ZeroAddress =>
            LockTerms(locks[id]) =
                [depositor |-> evmEvents[id][1].depositor,
                 recipient |-> evmEvents[id][1].targetAddress,
                 amount |-> evmEvents[id][1].amount,
                 secretHash |-> evmEvents[id][1].hashedSecret,
                 timelock |-> evmEvents[id][1].timelock]
    /\ \A id \in DOMAIN objects : objects[id] = suiCreated[id]

\* a refunded lock, after the clock has moved, that a further create under
\* its id, by another account with other terms, leaves as it is
C25_Witness ==
    \E id \in LockIds :
        /\ EvmStatus(id) = "Refunded"
        /\ locks[id].depositor = EvmWallet
        /\ ethBalance[EvmOther] >= 1
        /\ createLock(EvmState, evmNow, EvmOther, 1, id, EvmRejecting, ZeroHash, 0).err
                # "ok"
        /\ evmNow > locks[id].timelock

(***************************************************************************)
(* C26  Re-entrancy.  redeem and refund set the status flag before the     *)
(* ether transfer, so a call back into the contract made by the receiver   *)
(* during the transfer fails when it is a redeem or refund of the same     *)
(* lock, and no lock pays out more than its amount; a call back on another *)
(* lock pays at most that lock's amount, under that lock's own             *)
(* preconditions.                                                          *)
(***************************************************************************)
\* the calls EvmReentering can make from the current state, with what its
\* receive function does when it is paid
ReenteredCalls ==
    {[outer |-> id, cb |-> cb,
      r |-> redeemByContract(EvmState, evmNow, EvmReentering, id, S1, cb)] :
        id \in LockIds, cb \in Callbacks}
    \cup
    {[outer |-> id, cb |-> cb,
      r |-> refundByContract(EvmState, evmNow, EvmReentering, id, cb)] :
        id \in LockIds, cb \in Callbacks}

\* the preconditions of the call back, read before the outer call
InnerPreconditions(cb) ==
    /\ EvmStatus(cb.lockId) = "Locked"
    /\ IF cb.fn = "redeem"
       THEN /\ locks[cb.lockId].recipient = EvmReentering
            /\ evmNow < locks[cb.lockId].timelock
            /\ sha256(cb.secret) = locks[cb.lockId].secretHash
       ELSE /\ locks[cb.lockId].depositor = EvmReentering
            /\ evmNow >= locks[cb.lockId].timelock

C26_Reentrancy ==
    /\ \A c \in ReenteredCalls :
        /\ c.cb.lockId = c.outer => c.r.inner # "ok"
        /\ c.r.inner = "ok" =>
            /\ InnerPreconditions(c.cb)
            /\ c.r.err = "ok"
            /\ c.r.st.paid[c.cb.lockId]
                = <<[to |-> EvmReentering, amount |-> locks[c.cb.lockId].amount]>>
            /\ c.r.st.bal[EvmReentering] = ethBalance[EvmReentering]
                + locks[c.outer].amount + locks[c.cb.lockId].amount
        /\ \A id \in LockIds : SumSeq(c.r.st.paid[id]) <= locks[id].amount
        /\ c.r.err # "ok" => c.r.st = EvmState
        /\ c.cb.fn = "none" => c.r.inner = "none"
    /\ \A sender \in ContractCallers, id \in LockIds, secret \in Bytes32 :
        /\ redeemByContract(EvmState, evmNow, sender, id, secret, NoCallback).st
            = redeem(EvmState, evmNow, sender, id, secret).st
        /\ refundByContract(EvmState, evmNow, sender, id, NoCallback).st
            = refund(EvmState, evmNow, sender, id).st
    /\ \A id \in LockIds : SumSeq(evmPaid[id]) <= locks[id].amount

\* two Locked locks that EvmReentering may both claim: its claim of the one
\* succeeds while the claim of the same lock made from its receive function
\* fails and the claim of the other lock made from there succeeds
C26_Witness ==
    \E a \in LockIds, b \in LockIds :
        /\ a # b
        /\ EvmStatus(a) = "Locked" /\ EvmStatus(b) = "Locked"
        /\ locks[a].recipient = EvmReentering /\ locks[b].recipient = EvmReentering
        /\ evmNow < locks[a].timelock /\ evmNow < locks[b].timelock
        /\ LET same == redeemByContract(EvmState, evmNow, EvmReentering, a, S1,
                        [fn |-> "redeem", lockId |-> a, secret |-> S1, catches |-> TRUE])
               other == redeemByContract(EvmState, evmNow, EvmReentering, a, S1,
                        [fn |-> "redeem", lockId |-> b, secret |-> S1, catches |-> TRUE])
           IN /\ same.err = "ok" /\ same.inner = "Already claimed"
              /\ other.err = "ok" /\ other.inner = "ok"

(***************************************************************************)
(* C27  Transfer and status flip are atomic between transactions.  When    *)
(* the ether transfer of an EVM redeem or refund fails because the         *)
(* receiver rejects it, the call fails with "Failed to send Ether", the    *)
(* claimed / refunded flag stays unset and the funds stay in the contract. *)
(* No state has a terminal lock whose funds have not moved, nor a Locked   *)
(* lock whose funds have.                                                  *)
(***************************************************************************)
LockedAmount(id) == IF EvmStatus(id) = "Locked" THEN locks[id].amount ELSE 0

\* the other id of the two
OtherLockId(id) == CHOOSE other \in LockIds : other # id

C27_TransferAtomicity ==
    /\ \A id \in LockIds, secret \in Bytes32 :
        (/\ EvmStatus(id) = "Locked"
         /\ locks[id].recipient = EvmRejecting
         /\ evmNow < locks[id].timelock
         /\ sha256(secret) = locks[id].secretHash)
        => \A r \in {redeemByContract(EvmState, evmNow, EvmRejecting, id, secret,
                                      NoCallback)} :
            /\ r.err = "Failed to send Ether"
            /\ r.st = EvmState
            /\ redeem(EvmState, evmNow, EvmRejecting, id, secret).err = r.err
    /\ \A id \in LockIds :
        (/\ EvmStatus(id) = "Locked"
         /\ locks[id].depositor = EvmRejecting
         /\ evmNow >= locks[id].timelock)
        => \A r \in {refundByContract(EvmState, evmNow, EvmRejecting, id, NoCallback)} :
            /\ r.err = "Failed to send Ether"
            /\ r.st = EvmState
            /\ refund(EvmState, evmNow, EvmRejecting, id).err = r.err
    /\ \A c \in ReenteredCalls :
        IF c.r.err = "ok"
        THEN /\ LockStatus(c.r.st.locks[c.outer]) \in {"Claimed", "Refunded"}
             /\ c.r.st.paid[c.outer]
                 = <<[to |-> EvmReentering, amount |-> locks[c.outer].amount]>>
        ELSE c.r.st = EvmState
    /\ \A id \in LockIds :
        /\ EvmStatus(id) \in {"None", "Locked"} => evmPaid[id] = <<>>
        /\ EvmStatus(id) = "Claimed" =>
            evmPaid[id] = <<[to |-> locks[id].recipient, amount |-> locks[id].amount]>>
        /\ EvmStatus(id) = "Refunded" =>
            evmPaid[id] = <<[to |-> locks[id].depositor, amount |-> locks[id].amount]>>
        /\ ethBalance[HTLC] = LockedAmount(id) + LockedAmount(OtherLockId(id))

\* a lock whose depositor rejects ether, past its timelock: the refund fails
\* and the amount is still in the contract
C27_Witness ==
    \E id \in LockIds :
        /\ EvmStatus(id) = "Locked"
        /\ locks[id].depositor = EvmRejecting
        /\ locks[id].amount = 2
        /\ evmNow >= locks[id].timelock
        /\ ethBalance[HTLC] >= 2
        /\ refundByContract(EvmState, evmNow, EvmRejecting, id, NoCallback).err
                = "Failed to send Ether"

(***************************************************************************)
(* C28  Failure propagation in the orchestrator.  When a ledger call of a  *)
(* swap demo fails (the adapter throws), the demo ends with that error and *)
(* submits no further ledger call; in runFullDemo no later demo starts     *)
(* after a demo has failed.                                                *)
(***************************************************************************)
\* a step in which a swap demo submitted a call that the ledger rejected:
\* the call is on the demo's list and neither ledger has changed
CallRejected ==
    /\ orch.dir \in {"EVMToSUI", "SUIToEVM"}
    /\ orch'.demo = orch.demo
    /\ Len(orch'.calls) = Len(orch.calls) + 1
    /\ UNCHANGED <<evmVars, suiVars>>

C28_FailurePropagation ==
    /\ [](orch.pc = "failed" =>
            /\ orch.err # "none"
            /\ Len(orch.calls) = orch.step
            /\ orch.calls[orch.step] = Program(orch.dir)[orch.step]
               \/ orch.dir = "TimelockExpiry")
    /\ [][CallRejected => orch'.pc = "failed" /\ orch'.err # "none"]_vars
    /\ [][orch.pc = "failed" => UNCHANGED <<orch, evmVars, suiVars>>]_vars

\* the second demo of runFullDemo failed at its third call, after the first
\* demo had gone through
C28_Witness ==
    /\ orch.pc = "failed"
    /\ orch.demo = 2
    /\ orch.calls = <<"sui.createLock", "evm.createLock", "evm.redeem">>
    /\ locks[hashSecret(DemoSecret(1))].claimed
    /\ locks[hashSecret(DemoSecret(3))] = EmptyLock

(***************************************************************************)
(* C29  Adapter validation.  EVMService.createLock with a malformed        *)
(* recipient address and SuiService.createLock with an amount string that  *)
(* contains a decimal point throw before any transaction is sent: the call *)
(* creates no lock and moves no funds, and the orchestrator does not try   *)
(* it again.                                                               *)
(***************************************************************************)
EvmCreateParams(recipient, amount) ==
    [lockId |-> generateLockId(hashSecret(S2)), recipient |-> recipient,
     secretHash |-> formatHashForDisplay(hashSecret(S2)), timelock |-> MAKER,
     amount |-> amount]

SuiCreateParams(amount) ==
    [duration |-> TAKER, secretHash |-> hashSecret(S2), targetAddress |-> SuiOther,
     refundAddress |-> SuiWallet, amount |-> amount, secretLength |-> SecretBytes]

C29_ValidationBeforeSubmission ==
    /\ \A amount \in {EthAmount, ExpiryAmount} :
        \A r \in {EVMService_createLock(EvmState, evmNow,
                                        EvmCreateParams(Malformed, amount))} :
            r.err = "Invalid recipient address" /\ r.st = EvmState
    /\ \A recipient \in EvmAddrs \cup {ZeroAddress} :
        EVMService_createLock(EvmState, evmNow, EvmCreateParams(recipient, EthAmount)).err
            # "Invalid recipient address"
    /\ \A r \in {SuiService_createLock(SuiState, suiNow, SuiCreateParams(SuiDecimal))} :
        r.err = "SUI amount should be in MIST" /\ r.st = SuiState
    /\ SuiService_createLock(SuiState, suiNow, SuiCreateParams(MistAmount)).err
            # "SUI amount should be in MIST"
    /\ orch.err = "Invalid recipient address" =>
        /\ orch.pc = "failed"
        /\ orch.calls[Len(orch.calls)] = "evm.createLock"
        /\ Cardinality({i \in 1..Len(orch.calls) : orch.calls[i] = "evm.createLock"}) = 1
        /\ \A id \in LockIds : locks[id] = EmptyLock
        /\ \A a \in EvmAddrs : ethBalance[a] = InitialBalance
    /\ orch.err = "SUI amount should be in MIST" =>
        /\ orch.pc = "failed"
        /\ orch.calls[Len(orch.calls)] = "sui.createLock"
        /\ Cardinality({i \in 1..Len(orch.calls) : orch.calls[i] = "sui.createLock"}) = 1
        /\ suiCreated = <<>>
        /\ \A a \in SuiAddrs : suiBalance[a] = InitialBalance

\* a SUI-to-EVM run stopped by the malformed EVM recipient after its Sui
\* lock had been created: the EVM ledger is untouched
C29_Witness ==
    /\ orch.err = "Invalid recipient address"
    /\ orch.dir = "SUIToEVM"
    /\ orch.ethDestination = Malformed
    /\ SuiLockOnLedger
    /\ ethBalance[HTLC] = 0

(***************************************************************************)
(* C30  Query.  EVMService.getLock is read-only and total: it changes no   *)
(* lock and no balance, returns null exactly for the ids under which no    *)
(* lock was ever created, and for every created lock returns the stored    *)
(* depositor, recipient, amount, secretHash and timelock with the current  *)
(* claimed and refunded flags, whoever asks.                               *)
(***************************************************************************)
\* what getLock returns for a lock on the ledger when the node answers
StoredLock(id) ==
    [lockId |-> ToHex(id), depositor |-> locks[id].depositor,
     recipient |-> locks[id].recipient, amount |-> formatEther(locks[id].amount),
     secretHash |-> ToHex(locks[id].secretHash), timelock |-> locks[id].timelock,
     claimed |-> locks[id].claimed, refunded |-> locks[id].refunded]

QueryAnswer(id, rpc) ==
    LET r == EVMService_getLock(EvmState, ToHex(id), rpc)
    IN /\ (r = Null) <=> (evmEvents[id] = <<>>)
       /\ evmEvents[id] # <<>> => r = StoredLock(id)

C30_QueryTotal ==
    \A id \in LockIds \cup {ZeroHash}, rpc \in RpcOutcomes :
        IF id \in LockIds THEN QueryAnswer(id, rpc)
        ELSE EVMService_getLock(EvmState, ToHex(id), rpc) = Null

(***************************************************************************)
(* C31  Destination addresses and claim authorization.  Both claims of a   *)
(* swap demo are submitted by the service wallets.  With an explicit ETH   *)
(* destination other than the EVM service wallet the EVM claim fails with  *)
(* "Not the recipient"; in demonstrateEVMToSUI that happens after the Sui  *)
(* claim has succeeded and revealed the secret, so the Sui lock is Claimed *)
(* and the EVM lock still Locked.  With the default destinations no claim  *)
(* is refused for its caller.                                              *)
(***************************************************************************)
C31_DestinationAuthorization ==
    /\ Current = "evm.redeem" =>
        ((EVMService_redeem(EvmState, evmNow, orch.lockId,
                            formatSecretForDisplay(orch.secret)).err = "Not the recipient")
            <=> orch.ethDestination # EvmWallet)
    /\ orch.err = "Not the recipient" =>
        /\ orch.pc = "failed"
        /\ orch.ethDestination # EvmWallet
        /\ orch.calls[Len(orch.calls)] = "evm.redeem"
        /\ EvmStatus(FromHex(orch.lockId)) = "Locked"
        /\ locks[FromHex(orch.lockId)].recipient = orch.ethDestination
        /\ ethBalance[HTLC] >= locks[FromHex(orch.lockId)].amount
        /\ orch.dir = "EVMToSUI" =>
            /\ orch.calls = <<"evm.createLock", "sui.createLock", "sui.redeem",
                              "evm.redeem">>
            /\ SuiStatus(orch.suiLockId) = "Claimed"
            /\ suiEvents[orch.suiLockId][2].secret = orch.secret
            /\ suiEvents[orch.suiLockId][2].claimer = SuiWallet
        /\ orch.dir = "SUIToEVM" =>
            /\ orch.calls = <<"sui.createLock", "evm.createLock", "evm.redeem">>
            /\ SuiStatus(orch.suiLockId) = "Locked"
    /\ (orch.pc = "done" /\ orch.dir \in {"EVMToSUI", "SUIToEVM"}) =>
        /\ orch.ethDestination = EvmWallet
        /\ evmEvents[FromHex(orch.lockId)][2].type = "EVMClaimed"
        /\ suiEvents[orch.suiLockId][2].claimer = SuiWallet

\* the first demo stopped at its EVM claim: the secret is public on Sui and
\* the ether is still locked for the other account
C31_Witness ==
    /\ orch.err = "Not the recipient"
    /\ orch.dir = "EVMToSUI"
    /\ orch.ethDestination = EvmOther
    /\ SuiStatus(orch.suiLockId) = "Claimed"
    /\ EvmStatus(FromHex(orch.lockId)) = "Locked"

(***************************************************************************)
(* C32  EVM custody.  After any sequence of createLock, redeem and refund  *)
(* calls, accepted or rejected, by any callers, the contract's ether       *)
(* balance equals the sum of the amounts of the locks that are neither     *)
(* claimed nor refunded.  (Nothing else pays ether into the contract.)     *)
(***************************************************************************)
C32_Custody ==
    /\ ethBalance[HTLC] = Sum([id \in LockIds |-> LockedAmount(id)], LockIds)
    /\ Sum(ethBalance, EvmAccounts) = InitialBalance * (Cardinality(EvmAccounts) - 1)
    /\ \A a \in EvmAccounts : ethBalance[a] >= 0

\* one lock paid out and another, of a different amount and for a recipient
\* that rejects ether, still in custody
C32_Witness ==
    \E a \in LockIds, b \in LockIds :
        /\ EvmStatus(a) = "Claimed"
        /\ EvmStatus(b) = "Locked"
        /\ locks[a].amount = 2
        /\ locks[b].amount = 1
        /\ locks[b].recipient = EvmRejecting
        /\ ethBalance[HTLC] = 1

(***************************************************************************)
(* C33  An EVM lockId is single-use.  Once a lock has been created under a *)
(* lockId, by whoever came first, every later createLock with that lockId  *)
(* fails with the duplicate-lock error, also after the lock has been       *)
(* claimed or refunded: nothing ever clears the stored depositor.          *)
(*   As amended: every such call fails and changes nothing; the error is   *)
(* "LockId already exists" when the call carries a value > 0 and "Amount   *)
(* must be greater than 0" when it carries none.                           *)
(***************************************************************************)
SingleUse(errorFor(_)) ==
    \A id \in LockIds :
        evmEvents[id] # <<>> =>
            /\ locks[id].depositor = evmEvents[id][1].depositor
            /\ locks[id].depositor # ZeroAddress
            /\ \A sender \in ContractCallers, value \in {0, 1} :
                value <= ethBalance[sender] =>
                    \A r \in {createLock(EvmState, evmNow, sender, value, id,
                                         sender, sha256(S2), MAKER)} :
                        r.err = errorFor(value) /\ r.st = EvmState

C33_SingleUse_AsClaimed == SingleUse(DuplicateError)

C33_SingleUse == SingleUse(AmountThenDuplicateError)

\* a lock claimed long ago, and one refunded, whose ids another account with
\* funds tries to use again
C33_Witness ==
    \E a \in LockIds, b \in LockIds :
        /\ EvmStatus(a) = "Claimed"
        /\ EvmStatus(b) = "Refunded"
        /\ evmNow > locks[a].timelock
        /\ locks[a].depositor = EvmWallet
        /\ ethBalance[EvmReentering] >= 1
        /\ createLock(EvmState, evmNow, EvmReentering, 1, a, EvmReentering,
                      sha256(S2), MAKER).err = "LockId already exists"
        /\ createLock(EvmState, evmNow, EvmReentering, 1, b, EvmReentering,
                      sha256(S2), MAKER).err = "LockId already exists"

(***************************************************************************)
(* C34  Event order per lock.  On each ledger the events emitted for one   *)
(* lock are the created event (EVMDepositLocked / NewLockEvent) exactly    *)
(* once and first, followed by at most one of claimed (EVMClaimed /        *)
(* LockClaimedEvent) or refunded (EVMRefunded / LockRefundedEvent); no     *)
(* claimed or refunded event exists for a lock without a created event     *)
(* before it, and no failed call emits an event.                           *)
(***************************************************************************)
EventTypes(evs) == [i \in 1..Len(evs) |-> evs[i].type]

EvmEventOrders ==
    {<<>>, <<"EVMDepositLocked">>,
     <<"EVMDepositLocked", "EVMClaimed">>,
     <<"EVMDepositLocked", "EVMRefunded">>}

SuiEventOrders ==
    {<<"NewLockEvent">>,
     <<"NewLockEvent", "LockClaimedEvent">>,
     <<"NewLockEvent", "LockRefundedEvent">>}

EvmFailedCalls ==
    {x \in {redeem(EvmState, evmNow, sender, id, secret) :
                sender \in EvmAddrs, id \in LockIds, secret \in Bytes32}
           \cup {refund(EvmState, evmNow, sender, id) :
                sender \in EvmAddrs, id \in LockIds}
           \cup {createLock(EvmState, evmNow, sender, value, id, EvmOther,
                            sha256(S1), TAKER) :
                sender \in EvmAddrs, id \in LockIds, value \in {0, 1}} :
        x.err # "ok"}

SuiFailedCalls ==
    {x \in {htlc_redeem(SuiState, suiNow, sender, id, secret) :
                sender \in SuiAddrs, id \in DOMAIN suiCreated, secret \in Secrets}
           \cup {htlc_refund(SuiState, suiNow, sender, id) :
                sender \in SuiAddrs, id \in DOMAIN suiCreated}
           \cup {htlc_createLock(SuiState, suiNow, sender, MAKER * MsPerSecond,
                                 sha256(S1), SuiOther, sender,
                                 suiBalance[sender] + 1, SecretBytes) :
                sender \in SuiAddrs} :
        x.err # "ok"}

C34_EventOrder ==
    /\ \A id \in LockIds :
        /\ EventTypes(evmEvents[id]) \in EvmEventOrders
        /\ \A i \in 1..Len(evmEvents[id]) : evmEvents[id][i].lockId = id
        /\ Len(evmEvents[id]) = 0 <=> EvmStatus(id) = "None"
        /\ Len(evmEvents[id]) = 1 <=> EvmStatus(id) = "Locked"
        /\ Len(evmEvents[id]) = 2 =>
            (evmEvents[id][2].type = "EVMClaimed" <=> EvmStatus(id) = "Claimed")
    /\ DOMAIN suiEvents = DOMAIN suiCreated
    /\ \A id \in DOMAIN suiEvents :
        /\ EventTypes(suiEvents[id]) \in SuiEventOrders
        /\ \A i \in 1..Len(suiEvents[id]) : suiEvents[id][i].lock = id
        /\ Len(suiEvents[id]) = 1 <=> SuiStatus(id) = "Locked"
        /\ Len(suiEvents[id]) = 2 =>
            (suiEvents[id][2].type = "LockClaimedEvent" <=> SuiStatus(id) = "Claimed")
    /\ \A r \in EvmFailedCalls : r.st.events = evmEvents
    /\ \A r \in SuiFailedCalls : r.st.events = suiEvents

\* a claimed lock and a refunded lock, one on each ledger, with calls on both
\* that fail
C34_Witness ==
    /\ \E id \in LockIds :
        EventTypes(evmEvents[id]) = <<"EVMDepositLocked", "EVMRefunded">>
    /\ \E id \in DOMAIN suiEvents :
        EventTypes(suiEvents[id]) = <<"NewLockEvent", "LockClaimedEvent">>
    /\ Cardinality(EvmFailedCalls) > 1
    /\ Cardinality(SuiFailedCalls) > 1

(***************************************************************************)
(* C35  The Sui lock lifecycle through the adapter.  redeem and refund     *)
(* delete the shared LockObject, so SuiService.getLock returns a lock,     *)
(* always with claimed = false and refunded = false, exactly while the     *)
(* lock is Locked, and returns null after either terminal transition: a    *)
(* Claimed lock, a Refunded lock and a never-created lock all give null.   *)
(***************************************************************************)
\* the object ids in use, and one that no lock was ever created under
QueriedObjectIds == DOMAIN suiCreated \cup {NewObjectId(SuiState)}

SuiQueryAnswer(id, rpc) ==
    LET r == SuiService_getLock(SuiState, id, rpc)
    IN /\ (r # Null) <=> (SuiStatus(id) = "Locked")
       /\ (SuiStatus(id) = "Locked") <=> (id \in DOMAIN objects)
       /\ r # Null =>
            /\ r.claimed = FALSE /\ r.refunded = FALSE
            /\ r.objectId = id
            /\ r.initiator = suiCreated[id].initiator
            /\ r.targetAddress = suiCreated[id].target_adr
            /\ r.refundAddress = suiCreated[id].refund_adr
            /\ r.secretHash = suiCreated[id].hashed
            /\ r.deadline = suiCreated[id].deadline
       /\ SuiStatus(id) \in {"Claimed", "Refunded", "None"} => r = Null

C35_SuiLockLifecycle ==
    \A id \in QueriedObjectIds, rpc \in RpcOutcomes : SuiQueryAnswer(id, rpc)

(***************************************************************************)
(* C36  The timelock-expiry demo.  demonstrateTimelockExpiry creates one   *)
(* EVM lock with a 30-second timelock, submits refund only after the       *)
(* create was confirmed and a further 35 seconds (timelock + 5) have been  *)
(* waited, never submits a claim, and returns normally whether the refund  *)
(* succeeds or fails; if creating the lock fails, no refund is attempted.  *)
(***************************************************************************)
ExpiryLockId == FromHex(orch.lockId)

\* the step in which the demo's createLock is confirmed
ExpiryLockCreated == Current = "expiry.createLock" /\ orch'.step = 2

\* the step in which the demo's refund returns or throws
ExpiryRefundSubmitted == Current = "expiry.refund" /\ orch' # orch

C36_TimelockExpiryDemo ==
    /\ [](orch.dir = "TimelockExpiry" =>
            /\ orch.calls \in {<<>>, <<"evm.createLock">>,
                               <<"evm.createLock", "evm.refund">>}
            /\ orch.pc = "failed" =>
                /\ orch.calls = <<"evm.createLock">>
                /\ orch.step = 1
                /\ orch.err # "none"
            /\ orch.pc = "done" =>
                /\ orch.calls = <<"evm.createLock", "evm.refund">>
                /\ orch.err = "none"
            /\ orch.step >= 2 =>
                /\ orch.calls[1] = "evm.createLock"
                /\ LET e == evmEvents[ExpiryLockId][1]
                   IN /\ e.depositor = EvmWallet
                      /\ e.targetAddress = EvmWallet
                      /\ e.amount = parseEther(ExpiryAmount)
                      /\ e.hashedSecret = orch.secretHash
                      /\ e.timelock = locks[ExpiryLockId].timelock
            /\ orch.step >= 3 =>
                evmNow >= locks[ExpiryLockId].timelock + ExpiryBuffer)
    /\ [][ExpiryLockCreated =>
            /\ locks[ExpiryLockId] = EmptyLock
            /\ locks'[ExpiryLockId].timelock = evmNow + ShortTimelock]_vars
    /\ [][(orch.dir = "TimelockExpiry" /\ orch.step = 2) =>
            \/ UNCHANGED orch
            \/ /\ evmNow' = evmNow + ShortTimelock + ExpiryBuffer
               /\ orch'.step = 3]_vars
    /\ [][ExpiryRefundSubmitted =>
            /\ orch'.pc = "done"
            /\ orch'.err = "none"
            /\ \/ /\ EvmStatus(ExpiryLockId) = "Locked"
                  /\ locks'[ExpiryLockId].refunded
                  /\ ethBalance'[EvmWallet] = ethBalance[EvmWallet] + parseEther(ExpiryAmount)
               \/ /\ EvmStatus(ExpiryLockId) # "Locked"
                  /\ UNCHANGED evmVars]_vars

\* the demo has returned after a refund that failed: the wallet had claimed
\* the lock on its own before the demo's refund
C36_Witness ==
    /\ orch.dir = "TimelockExpiry"
    /\ orch.pc = "done"
    /\ orch.calls = <<"evm.createLock", "evm.refund">>
    /\ EvmStatus(ExpiryLockId) = "Claimed"

====
